---- MODULE Spec2Model ----
(***************************************************************************)
(* Two-hop frame relay of the InnovAct SAR demo.                           *)
(*                                                                         *)
(*   secondary-cam (producer)  --TCP :8000-->  primary (relay)  --HTTP-->  *)
(*                                                                         *)
(* The relay's loop task runs handleFeedClient: it accepts one feed        *)
(* connection, decodes [4-byte big-endian length][payload] units and       *)
(* stores the newest frame in latest_frame/latest_len under frameMutex.    *)
(* Each viewer of /stream runs stream_handler: it copies the cached frame  *)
(* under the same mutex and sends it as one multipart part.                *)
(*                                                                         *)
(* Bytes are the numbers 0..255.  A pointer is a heap cell index, NULL is  *)
(* 0.  TLC's integers are 32-bit signed, so the uint32 header value is     *)
(* carried as its two 16-bit halves [hi, lo].                              *)
(***************************************************************************)
EXTENDS Integers, Sequences, FiniteSets, TLC

\* ------------------------------------------------------------ bounds
\* Number of concurrent /stream viewers.
NViewers == 2
\* Bytes the feed connection can hold in flight (socket buffers).
MaxWire == 4
\* Writes an arbitrary (non-camera) peer makes on one connection.
MaxRawWrites == 1
\* slots of the peer-mesh relay's table (6 in the deployed node)
MAX_CLIENTS == 2
\* bytes the mesh peers send in all
MeshBytes == 10
\* publications the record of published frames holds
MaxPubs == 2
\* bytes one drain of a slot takes at most
ChunkMax == 4

\* ------------------------------------------------------ program data
NULL == 0
Viewers == 1..NViewers
Slots == 1..MAX_CLIENTS
\* connections offered to the mesh relay: one more than it has slots
Conns == 1..(MAX_CLIENTS + 1)
\* Heap cells: two the feed loop's buf and the cache alternate between, and
\* one for each viewer's tmpbuf.
BufIds == 1..(NViewers + 2)

\* payload[] of the no-camera node; also used as a camera frame of length 4.
DeadBeef == <<222, 173, 190, 239>>
\* Camera frames (fb->buf, fb->len) the producer may capture.
CamFrames == {DeadBeef, <<7>>}
\* `len > 5*1024*1024` in handleFeedClient, as [hi, lo] halves.
MaxFrameLen == [hi |-> 80, lo |-> 0]

\* ------------------------------------------------------------- codec
\* sendFrameToPrimary: hdr[0..3] = (len >> 24, len >> 16, len >> 8, len) & 0xFF
EncodeHeader(n) ==
  << (n \div 16777216) % 256, (n \div 65536) % 256, (n \div 256) % 256, n % 256 >>

\* A mutant of DecodeLen: the four bytes read as little-endian.
DecodeLenLittleEndian(lenb) ==
  [hi |-> lenb[4] * 256 + lenb[3], lo |-> lenb[2] * 256 + lenb[1]]

\* A mutant of DecodeLen: len is a uint16_t, so only the low two bytes
\* of the header count.
DecodeLenLow16(lenb) ==
  [hi |-> 0, lo |-> lenb[3] * 256 + lenb[4]]

\* handleFeedClient: len = lenb[0]<<24 | lenb[1]<<16 | lenb[2]<<8 | lenb[3]
DecodeLen(lenb) ==
  [hi |-> lenb[1] * 256 + lenb[2], lo |-> lenb[3] * 256 + lenb[4]]

U32Gt(a, b) == a.hi > b.hi \/ (a.hi = b.hi /\ a.lo > b.lo)
U32Val(u) == u.hi * 65536 + u.lo

\* A mutant of BadLength: the upper limit is exclusive.
BadLengthExclusive(u) ==
  (u.hi = 0 /\ u.lo = 0) \/ U32Gt(u, MaxFrameLen) \/ u = MaxFrameLen

\* handleFeedClient: if (len == 0 || len > 5*1024*1024)
BadLength(u) == (u.hi = 0 /\ u.lo = 0) \/ U32Gt(u, MaxFrameLen)

\* Headers an arbitrary TCP peer of the feed port may write: zero, exactly
\* 5 MiB, 5 MiB + 1, and the no-camera node's unframed payload.  (The
\* camera node's own headers are 00 00 00 01 and 00 00 00 04.)
RawUnits ==
  { <<0, 0, 0, 0>>, <<0, 80, 0, 0>>, <<0, 80, 0, 1>>, DeadBeef }

\* ------------------------------------------------------------- mutex
\* frameMutex: its holder.
Unlocked == <<>>
HeldByFeed == <<"feed">>
HeldByViewer(v) == <<"viewer", v>>

\* -------------------------------------------------------------- heap
FreeCell == [alive |-> FALSE, size |-> 0, data |-> <<>>]
\* malloc(n): an uninitialised cell of n bytes; data is the prefix written.
NewCell(n) == [alive |-> TRUE, size |-> n, data |-> <<>>]
Take(s, n) == SubSeq(s, 1, n)
Drop(s, n) == SubSeq(s, n + 1, Len(s))
Min(a, b) == IF a < b THEN a ELSE b

VARIABLES
  \* feed connection (TCP :8000)
  relayEnd,      \* "none" | "pending" (in the listen backlog) | "accepted"
  peerKind,      \* whose connection it is: "cam" (secondary-cam) or "raw"
  peerOpen,      \* the peer's end of it is still open
  wire,          \* bytes written by the peer and not yet read by the relay
  rawWrites,     \* writes the raw peer made on it
  \* secondary-cam
  ppc,           \* "loop" | "data"
  pframe,        \* the frame being sent
  sentQ,         \* frames written on this connection, not yet decoded
  \* relay: handleFeedClient
  fpc,           \* position of the loop task
  len,           \* decoded header [hi, lo]
  buf,           \* payload buffer
  r,             \* payload bytes read so far
  nread,         \* bytes read from the socket in this decode attempt
  exitWhy,       \* why the read loop was left
  \* relay: frame cache
  latest_frame, latest_len, frameMutex, heap,
  \* relay: stream_handler, one per viewer
  vpc, tmpbuf, tmplen,
  out,           \* per viewer: the chunks sent of the part in progress
  copies,        \* per viewer: copies taken since its last part header
  snap,          \* per viewer: the cached bytes its copy was taken from
  \* history
  lastPub,       \* bytes of the frame most recently published, <<>> if none
  published,     \* every frame ever published
  lastDecoded,   \* bytes of the frame most recently decoded
  lastDropped,   \* the most recently decoded frame was dropped (lock timeout)
  timedOut,      \* per viewer: its last wait for the mutex timed out
  \* no-camera node, and its connection while it waits in the listen backlog
  npc,           \* "loop" | "backoff"
  queued,        \* its connection is established but not yet accepted
  qwire,         \* bytes it has written on that connection
  \* peer-mesh relay node
  clients,       \* the slot table: per slot its connection, 0 when absent
  backlog,       \* connections offered and not yet looked at, oldest first
  link,          \* per connection: "new" | "pending" | "open" | "closed" | "refused"
  inbox,         \* per connection: bytes the peer sent, not yet drained
  outbox,        \* per connection: bytes the relay wrote to it
  nsent,         \* per connection: how many bytes the peer has sent
  since,         \* per connection b, per peer a: bytes of a drained before b's install
  \* record of what was published and sent, kept when `tracking`
  tracking,      \* the record is being kept
  pubLog,        \* the frames published, in order
  sentAt,        \* per viewer: the earliest publication its last body can be of
  prevBody       \* per viewer: the body of its last completed part

feedVars == <<fpc, len, buf, r, nread, exitWhy>>
connVars == <<relayEnd, peerKind, peerOpen, wire, rawWrites>>
camVars == <<ppc, pframe, sentQ>>
cacheVars == <<latest_frame, latest_len>>
viewVars == <<vpc, tmpbuf, tmplen, out, copies, snap, timedOut>>
histVars == <<lastPub, published, lastDecoded, lastDropped>>
nocamVars == <<npc, queued, qwire>>
meshVars == <<clients, backlog, link, inbox, outbox, nsent, since>>
orderVars == <<tracking, pubLog, sentAt, prevBody>>
vars == <<feedVars, connVars, camVars, cacheVars, frameMutex, heap, viewVars, histVars,
          nocamVars, meshVars, orderVars>>

\* malloc's result: addresses do not matter to the program, so the
\* allocator hands out cell `pref` when it is free and else the lowest free
\* cell (NULL when none is left).
Malloc(pref) ==
  IF ~heap[pref].alive THEN pref
  ELSE IF \E i \in BufIds : ~heap[i].alive
       THEN CHOOSE i \in BufIds : ~heap[i].alive /\ \A j \in BufIds : j < i => heap[j].alive
       ELSE NULL
\* free(p) and the cell's contents after it.
Free(h, p) == IF p = NULL THEN h ELSE [h EXCEPT ![p] = FreeCell]

ProgramInit ==
  /\ relayEnd = "none" /\ peerKind = "cam" /\ peerOpen = FALSE /\ wire = <<>>
  /\ rawWrites = 0
  /\ ppc = "loop" /\ pframe = <<>> /\ sentQ = <<>>
  /\ fpc = "idle" /\ len = [hi |-> 0, lo |-> 0] /\ buf = NULL /\ r = 0
  /\ nread = 0 /\ exitWhy = "none"
  /\ latest_frame = NULL /\ latest_len = 0 /\ frameMutex = Unlocked
  /\ heap = [i \in BufIds |-> FreeCell]
  /\ vpc = [v \in Viewers |-> "idle"]
  /\ tmpbuf = [v \in Viewers |-> NULL]
  /\ tmplen = [v \in Viewers |-> 0]
  /\ out = [v \in Viewers |-> <<>>]
  /\ copies = [v \in Viewers |-> 0]
  /\ snap = [v \in Viewers |-> <<>>]
  /\ timedOut = [v \in Viewers |-> FALSE]
  /\ npc = "loop" /\ queued = FALSE /\ qwire = <<>>
  /\ clients = [s \in Slots |-> 0] /\ backlog = <<>>
  /\ link = [c \in Conns |-> "new"]
  /\ inbox = [c \in Conns |-> <<>>] /\ outbox = [c \in Conns |-> <<>>]
  /\ nsent = [c \in Conns |-> 0]
  /\ since = [b \in Conns |-> [a \in Conns |-> 0]]
  /\ lastPub = <<>> /\ published = {}
  /\ lastDecoded = <<>> /\ lastDropped = FALSE
  /\ pubLog = <<>>
  /\ sentAt = [v \in Viewers |-> 0]
  /\ prevBody = [v \in Viewers |-> <<>>]

Init == ProgramInit /\ tracking = FALSE

\* ------------------------------------------------- secondary-cam (producer)
\* client.connected(): the producer's connection is the one the relay end
\* belongs to, and the relay has not closed it.
CamConnected == relayEnd # "none" /\ peerKind = "cam"

\* loop(): if (!client.connected()) { client.stop(); client.connect(...) }
\* (a failed connect changes nothing: delay(500) and the next loop()).
CamReconnect ==
  /\ ppc = "loop" /\ ~CamConnected
  /\ relayEnd = "none"
  /\ relayEnd' = "pending" /\ peerKind' = "cam" /\ peerOpen' = TRUE
  /\ wire' = <<>> /\ rawWrites' = 0
  /\ sentQ' = <<>>
  /\ UNCHANGED <<ppc, pframe, feedVars, cacheVars, frameMutex, heap, viewVars, histVars>>
  /\ UNCHANGED nocamVars
  /\ UNCHANGED meshVars
  /\ UNCHANGED orderVars

\* loop(): client.stop(); client.connect(...) failed: delay(500) is next.
CamConnectFail ==
  /\ ppc = "loop" /\ ~CamConnected
  /\ ppc' = "backoff"
  /\ UNCHANGED <<pframe, sentQ, connVars, feedVars, cacheVars, frameMutex, heap,
                 viewVars, histVars, nocamVars,
                 meshVars>>
  /\ UNCHANGED orderVars

\* delay(500); the frame captured next is not sent, client.connected()
\* being false, and is returned with esp_camera_fb_return; delay(100).
CamBackoff ==
  /\ ppc = "backoff"
  /\ ppc' = "loop"
  /\ UNCHANGED <<pframe, sentQ, connVars, feedVars, cacheVars, frameMutex, heap,
                 viewVars, histVars, nocamVars,
                 meshVars>>
  /\ UNCHANGED orderVars

\* A mutant of CamSendHeader: sendFrameToPrimary without
\* `if (!client.connected()) return;`, called without loop()'s test.
CamSendHeaderUnchecked(f) ==
  /\ ppc = "loop"
  /\ Len(wire) + 4 <= MaxWire
  /\ wire' = wire \o EncodeHeader(Len(f))
  /\ sentQ' = Append(sentQ, f)
  /\ ppc' = "data" /\ pframe' = f
  /\ UNCHANGED <<relayEnd, peerKind, peerOpen, rawWrites, feedVars,
                 cacheVars, frameMutex, heap, viewVars, histVars, nocamVars,
                 meshVars>>
  /\ UNCHANGED orderVars

\* loop() -> sendFrameToPrimary(fb->buf, fb->len):
\* if (!client.connected()) return; client.write(hdr, 4);
CamSendHeader(f) ==
  /\ ppc = "loop" /\ CamConnected
  /\ Len(wire) + 4 <= MaxWire
  /\ wire' = wire \o EncodeHeader(Len(f))
  /\ sentQ' = Append(sentQ, f)
  /\ ppc' = "data" /\ pframe' = f
  /\ UNCHANGED <<relayEnd, peerKind, peerOpen, rawWrites, feedVars,
                 cacheVars, frameMutex, heap, viewVars, histVars>>
  /\ UNCHANGED nocamVars
  /\ UNCHANGED meshVars
  /\ UNCHANGED orderVars

\* sendFrameToPrimary: client.write(data, len); client.flush().  The
\* payload reaches the relay in one or more segments, as the socket buffers
\* have room; pframe is what is left to write.  (What is left when the
\* relay closes the connection is lost: see FeedStop.)
CamSendData ==
  /\ ppc = "data" /\ CamConnected
  /\ \E k \in 1..Len(pframe) :
       /\ Len(wire) + k <= MaxWire
       /\ wire' = wire \o Take(pframe, k)
       /\ pframe' = Drop(pframe, k)
  /\ ppc' = IF pframe' = <<>> THEN "loop" ELSE "data"
  /\ UNCHANGED <<sentQ, relayEnd, peerKind, peerOpen, rawWrites, feedVars,
                 cacheVars, frameMutex, heap, viewVars, histVars>>
  /\ UNCHANGED nocamVars
  /\ UNCHANGED meshVars
  /\ UNCHANGED orderVars

\* ------------------------------------------ any other peer of the feed port
RawConnect ==
  /\ relayEnd = "none"
  /\ relayEnd' = "pending" /\ peerKind' = "raw" /\ peerOpen' = TRUE
  /\ wire' = <<>> /\ rawWrites' = 0
  /\ UNCHANGED <<camVars, feedVars, cacheVars, frameMutex, heap, viewVars, histVars>>
  /\ UNCHANGED nocamVars
  /\ UNCHANGED meshVars
  /\ UNCHANGED orderVars

RawWrite(u) ==
  /\ relayEnd # "none" /\ peerKind = "raw" /\ peerOpen
  /\ rawWrites < MaxRawWrites
  /\ Len(wire) + Len(u) <= MaxWire
  /\ wire' = wire \o u /\ rawWrites' = rawWrites + 1
  /\ UNCHANGED <<relayEnd, peerKind, peerOpen, camVars, feedVars, cacheVars,
                 frameMutex, heap, viewVars, histVars>>
  /\ UNCHANGED nocamVars
  /\ UNCHANGED meshVars
  /\ UNCHANGED orderVars

RawClose ==
  /\ relayEnd # "none" /\ peerKind = "raw" /\ peerOpen
  /\ peerOpen' = FALSE
  /\ UNCHANGED <<relayEnd, peerKind, wire, rawWrites, camVars, feedVars, cacheVars,
                 frameMutex, heap, viewVars, histVars>>
  /\ UNCHANGED nocamVars
  /\ UNCHANGED meshVars
  /\ UNCHANGED orderVars

\* ------------------------------------------------------ no-camera node
\* Its client is connected: accepted or pending at the relay, or still in
\* the listen backlog behind the connection the relay is serving.
NoCamConnected == queued \/ (relayEnd # "none" /\ peerKind = "nocam")

\* loop(): if (!client.connected()) { client.stop(); client.connect(...)
\* succeeded.  The relay's listening socket completes the handshake whether
\* or not handleFeedClient is serving another connection.
NoCamConnect ==
  /\ npc = "loop" /\ ~NoCamConnected
  /\ IF relayEnd = "none"
       THEN /\ relayEnd' = "pending" /\ peerKind' = "nocam" /\ peerOpen' = TRUE
            /\ wire' = <<>> /\ rawWrites' = 0
            /\ UNCHANGED <<queued, qwire>>
       ELSE /\ queued' = TRUE /\ qwire' = <<>>
            /\ UNCHANGED connVars
  /\ UNCHANGED <<npc, camVars, feedVars, cacheVars, frameMutex, heap, viewVars, histVars, meshVars>>
  /\ UNCHANGED orderVars

\* client.connect(...) failed: delay(1000); return;
NoCamConnectFail ==
  /\ npc = "loop" /\ ~NoCamConnected
  /\ npc' = "backoff"
  /\ UNCHANGED <<queued, qwire, connVars, camVars, feedVars, cacheVars, frameMutex,
                 heap, viewVars, histVars, meshVars>>
  /\ UNCHANGED orderVars

NoCamBackoff ==
  /\ npc = "backoff"
  /\ npc' = "loop"
  /\ UNCHANGED <<queued, qwire, connVars, camVars, feedVars, cacheVars, frameMutex,
                 heap, viewVars, histVars, meshVars>>
  /\ UNCHANGED orderVars

\* client.write(payload, sizeof(payload)); client.flush(); delay(5000);
\* the 4 bytes go out unframed.
NoCamWrite ==
  /\ npc = "loop" /\ NoCamConnected
  /\ IF queued
       THEN /\ Len(qwire) + Len(DeadBeef) <= MaxWire
            /\ qwire' = qwire \o DeadBeef
            /\ UNCHANGED <<wire, queued>>
       ELSE /\ Len(wire) + Len(DeadBeef) <= MaxWire
            /\ wire' = wire \o DeadBeef
            /\ UNCHANGED <<qwire, queued>>
  /\ UNCHANGED <<npc, relayEnd, peerKind, peerOpen, rawWrites, camVars, feedVars,
                 cacheVars, frameMutex, heap, viewVars, histVars, meshVars>>
  /\ UNCHANGED orderVars

\* --------------------------------------------- relay: handleFeedClient
notFeed == <<camVars, viewVars>>
\* The read loop starts its next decode: the last one is history.
NoDecode == lastDecoded' = <<>> /\ lastDropped' = FALSE

\* if (!feedServer.hasClient()) return; WiFiClient c = feedServer.available();
FeedAccept ==
  /\ fpc = "idle" /\ relayEnd = "pending"
  /\ relayEnd' = "accepted"
  /\ fpc' = "hdr" /\ nread' = 0 /\ exitWhy' = "none"
  /\ UNCHANGED <<len, buf, r, peerKind, peerOpen, wire, rawWrites, notFeed,
                 cacheVars, frameMutex, heap, histVars>>
  /\ UNCHANGED nocamVars
  /\ UNCHANGED meshVars
  /\ UNCHANGED orderVars

\* while (c.connected()): false only once the peer has closed its end.
FeedDisconnected ==
  /\ fpc = "hdr" /\ ~peerOpen
  /\ fpc' = "stop" /\ exitWhy' = "disconnected" /\ nread' = 0
  /\ NoDecode
  /\ UNCHANGED <<len, buf, r, connVars, notFeed, cacheVars, frameMutex, heap,
                 lastPub, published>>
  /\ UNCHANGED nocamVars
  /\ UNCHANGED meshVars
  /\ UNCHANGED orderVars

\* A mutant of FeedHeaderTimeout: on a short header the loop turns to the
\* next waiting client instead of leaving, c = feedServer.available();
FeedHeaderTimeoutNextClient ==
  /\ fpc = "hdr" /\ Len(wire) < 4
  /\ IF queued
       THEN /\ wire' = qwire /\ peerKind' = "nocam" /\ peerOpen' = TRUE
            /\ queued' = FALSE /\ qwire' = <<>>
            /\ nread' = 0
            /\ UNCHANGED <<fpc, exitWhy, npc>>
       ELSE /\ wire' = <<>> /\ nread' = Len(wire)
            /\ fpc' = "stop" /\ exitWhy' = "short_header"
            /\ UNCHANGED <<peerKind, peerOpen, nocamVars>>
  /\ NoDecode
  /\ UNCHANGED <<len, buf, r, relayEnd, rawWrites, notFeed,
                 cacheVars, frameMutex, heap, lastPub, published>>
  /\ UNCHANGED meshVars
  /\ UNCHANGED orderVars

\* A mutant of FeedHeaderTimeout: while the peer is connected a short
\* header read is tried again, if (got != 4) { if (c.connected()) continue;
\* break; }
FeedHeaderTimeoutKeepOpen ==
  /\ fpc = "hdr" /\ Len(wire) < 4
  /\ wire' = <<>> /\ nread' = Len(wire)
  /\ IF peerOpen THEN UNCHANGED <<fpc, exitWhy>>
                 ELSE fpc' = "stop" /\ exitWhy' = "short_header"
  /\ NoDecode
  /\ UNCHANGED <<len, buf, r, relayEnd, peerKind, peerOpen, rawWrites, notFeed,
                 cacheVars, frameMutex, heap, lastPub, published>>
  /\ UNCHANGED nocamVars
  /\ UNCHANGED meshVars
  /\ UNCHANGED orderVars

\* c.readBytes(lenb, 4) returned fewer than 4 bytes within its timeout:
\* if (got != 4) break;
FeedHeaderTimeout ==
  /\ fpc = "hdr" /\ Len(wire) < 4
  /\ wire' = <<>> /\ nread' = Len(wire)
  /\ fpc' = "stop" /\ exitWhy' = "short_header"
  /\ NoDecode
  /\ UNCHANGED <<len, buf, r, relayEnd, peerKind, peerOpen, rawWrites, notFeed,
                 cacheVars, frameMutex, heap, lastPub, published>>
  /\ UNCHANGED nocamVars
  /\ UNCHANGED meshVars
  /\ UNCHANGED orderVars

\* c.readBytes(lenb, 4) == 4; the length check; buf = malloc(len), which
\* may fail.
FeedReadHeader ==
  /\ fpc = "hdr" /\ Len(wire) >= 4
  /\ wire' = Drop(wire, 4) /\ nread' = 4
  /\ len' = DecodeLen(Take(wire, 4))
  /\ IF BadLength(len')
       THEN /\ fpc' = "stop" /\ exitWhy' = "bad_length"
            /\ UNCHANGED <<buf, r, heap>>
       ELSE \/ /\ fpc' = "stop" /\ exitWhy' = "malloc_failed"
               /\ UNCHANGED <<buf, r, heap>>
            \/ /\ Malloc(1) # NULL
               /\ buf' = Malloc(1)
               /\ heap' = [heap EXCEPT ![Malloc(1)] = NewCell(U32Val(len'))]
               /\ r' = 0 /\ fpc' = "payload"
               /\ UNCHANGED exitWhy
  /\ NoDecode
  /\ UNCHANGED <<relayEnd, peerKind, peerOpen, rawWrites, notFeed, cacheVars,
                 frameMutex, lastPub, published>>
  /\ UNCHANGED nocamVars
  /\ UNCHANGED meshVars
  /\ UNCHANGED orderVars

\* A mutant of FeedReadPayload: c.readBytes(buf, len - r), the offset r
\* forgotten, so every segment lands at the start of buf.
FeedReadPayloadNoOffset ==
  /\ fpc = "payload" /\ Len(wire) > 0
  /\ LET rr == Min(Len(wire), U32Val(len) - r)
         done == r + rr = U32Val(len)
     IN /\ heap' = [heap EXCEPT ![buf].data = Take(wire, rr)]
        /\ wire' = Drop(wire, rr)
        /\ r' = r + rr /\ nread' = nread + rr
        /\ fpc' = IF done THEN "lock" ELSE "payload"
        /\ lastDecoded' = IF done THEN heap'[buf].data ELSE lastDecoded
        /\ lastDropped' = IF done THEN FALSE ELSE lastDropped
  /\ UNCHANGED <<len, buf, exitWhy, relayEnd, peerKind, peerOpen, rawWrites,
                 notFeed, cacheVars, frameMutex, lastPub, published>>
  /\ UNCHANGED nocamVars
  /\ UNCHANGED meshVars
  /\ UNCHANGED orderVars

\* rr = c.readBytes(buf + r, len - r) with rr > 0; r += rr.
FeedReadPayload ==
  /\ fpc = "payload" /\ Len(wire) > 0
  /\ LET rr == Min(Len(wire), U32Val(len) - r)
         done == r + rr = U32Val(len)
     IN /\ heap' = [heap EXCEPT ![buf].data = @ \o Take(wire, rr)]
        /\ wire' = Drop(wire, rr)
        /\ r' = r + rr /\ nread' = nread + rr
        /\ fpc' = IF done THEN "lock" ELSE "payload"
        /\ lastDecoded' = IF done THEN heap'[buf].data ELSE lastDecoded
        /\ lastDropped' = IF done THEN FALSE ELSE lastDropped
  /\ UNCHANGED <<len, buf, exitWhy, relayEnd, peerKind, peerOpen, rawWrites,
                 notFeed, cacheVars, frameMutex, lastPub, published>>
  /\ UNCHANGED nocamVars
  /\ UNCHANGED meshVars
  /\ UNCHANGED orderVars

\* A mutant of FeedPayloadTimeout: after a short read the loop goes on to
\* read the next header from the same connection, free(buf); continue;
FeedPayloadTimeoutRetry ==
  /\ fpc = "payload" /\ Len(wire) = 0
  /\ heap' = Free(heap, buf)
  /\ buf' = NULL /\ r' = -1
  /\ fpc' = "hdr" /\ nread' = 0
  /\ UNCHANGED <<len, exitWhy, connVars, notFeed, cacheVars, frameMutex, histVars>>
  /\ UNCHANGED nocamVars
  /\ UNCHANGED meshVars
  /\ UNCHANGED orderVars

\* rr <= 0: nothing arrived within the timeout.  r = -1; free(buf); break;
FeedPayloadTimeout ==
  /\ fpc = "payload" /\ Len(wire) = 0
  /\ heap' = Free(heap, buf)
  /\ buf' = NULL /\ r' = -1
  /\ fpc' = "stop" /\ exitWhy' = "short_read"
  /\ UNCHANGED <<len, nread, connVars, notFeed, cacheVars, frameMutex, histVars>>
  /\ UNCHANGED nocamVars
  /\ UNCHANGED meshVars
  /\ UNCHANGED orderVars

\* A mutant of FeedTake: the store is entered without the mutex.
FeedTakeNoLock ==
  /\ fpc = "lock"
  /\ fpc' = "store_frame"
  /\ UNCHANGED <<len, buf, r, nread, exitWhy, connVars, notFeed, cacheVars, heap,
                 histVars, frameMutex>>
  /\ UNCHANGED nocamVars
  /\ UNCHANGED meshVars
  /\ UNCHANGED orderVars

\* xSemaphoreTake(frameMutex, pdMS_TO_TICKS(200)) == pdTRUE
FeedTake ==
  /\ fpc = "lock" /\ frameMutex = Unlocked
  /\ frameMutex' = HeldByFeed /\ fpc' = "store_frame"
  /\ UNCHANGED <<len, buf, r, nread, exitWhy, connVars, notFeed, cacheVars, heap, histVars>>
  /\ UNCHANGED nocamVars
  /\ UNCHANGED meshVars
  /\ tracking => Len(pubLog) < MaxPubs
  /\ UNCHANGED orderVars

\* A mutant of FeedTakeTimeout: the timeout also ends the connection,
\* else { free(buf); break; }
FeedTakeTimeoutBreak ==
  /\ fpc = "lock" /\ frameMutex # Unlocked
  /\ heap' = Free(heap, buf)
  /\ buf' = NULL /\ r' = 0 /\ fpc' = "stop" /\ nread' = 0
  /\ len' = [hi |-> 0, lo |-> 0]
  /\ lastDropped' = TRUE
  /\ sentQ' = IF sentQ # <<>> THEN Tail(sentQ) ELSE sentQ
  /\ UNCHANGED <<exitWhy, connVars, ppc, pframe, viewVars, cacheVars, frameMutex,
                 lastPub, published, lastDecoded>>
  /\ UNCHANGED nocamVars
  /\ UNCHANGED meshVars
  /\ UNCHANGED orderVars

\* The mutex stayed taken for 200 ms: else { free(buf); }
FeedTakeTimeout ==
  /\ fpc = "lock" /\ frameMutex # Unlocked
  /\ heap' = Free(heap, buf)
  /\ buf' = NULL /\ r' = 0 /\ fpc' = "hdr" /\ nread' = 0
  /\ len' = [hi |-> 0, lo |-> 0]
  /\ lastDropped' = TRUE
  /\ sentQ' = IF sentQ # <<>> THEN Tail(sentQ) ELSE sentQ
  /\ UNCHANGED <<exitWhy, connVars, ppc, pframe, viewVars, cacheVars, frameMutex,
                 lastPub, published, lastDecoded>>
  /\ UNCHANGED nocamVars
  /\ UNCHANGED meshVars
  /\ UNCHANGED orderVars

\* A mutant of FeedStoreFrame: the first frame is kept, if (!latest_frame)
\* latest_frame = buf; else free(buf);
FeedStoreFrameKeepFirst ==
  /\ fpc = "store_frame"
  /\ IF latest_frame = NULL
       THEN latest_frame' = buf /\ UNCHANGED heap
       ELSE heap' = Free(heap, buf) /\ UNCHANGED latest_frame
  /\ fpc' = "store_len"
  /\ UNCHANGED <<len, buf, r, nread, exitWhy, connVars, notFeed, latest_len,
                 frameMutex, histVars>>
  /\ UNCHANGED nocamVars
  /\ UNCHANGED meshVars
  /\ UNCHANGED orderVars

\* if (latest_frame) free(latest_frame); latest_frame = buf;
FeedStoreFrame ==
  /\ fpc = "store_frame"
  /\ heap' = Free(heap, latest_frame)
  /\ latest_frame' = buf
  /\ fpc' = "store_len"
  /\ UNCHANGED <<len, buf, r, nread, exitWhy, connVars, notFeed, latest_len,
                 frameMutex, histVars>>
  /\ UNCHANGED nocamVars
  /\ UNCHANGED meshVars
  /\ UNCHANGED orderVars

\* A mutant of FeedStoreLen: latest_len = len is forgotten.
FeedStoreLenStale ==
  /\ fpc = "store_len"
  /\ fpc' = "give"
  /\ lastPub' = heap[buf].data
  /\ published' = published \cup {heap[buf].data}
  /\ UNCHANGED <<len, buf, r, nread, exitWhy, connVars, notFeed, latest_frame,
                 latest_len, frameMutex, heap, lastDecoded, lastDropped>>
  /\ UNCHANGED nocamVars
  /\ UNCHANGED meshVars
  /\ UNCHANGED orderVars

\* latest_len = len;  from here on the new frame is the published one.
FeedStoreLen ==
  /\ fpc = "store_len"
  /\ latest_len' = U32Val(len)
  /\ fpc' = "give"
  /\ lastPub' = heap[buf].data
  /\ published' = published \cup {heap[buf].data}
  /\ UNCHANGED <<len, buf, r, nread, exitWhy, connVars, notFeed, latest_frame,
                 frameMutex, heap, lastDecoded, lastDropped>>
  /\ UNCHANGED nocamVars
  /\ UNCHANGED meshVars
  /\ pubLog' = IF tracking THEN Append(pubLog, heap[buf].data) ELSE pubLog
  /\ UNCHANGED <<tracking, sentAt, prevBody>>

\* xSemaphoreGive(frameMutex); back to the top of the read loop.
FeedGive ==
  /\ fpc = "give"
  /\ frameMutex' = Unlocked
  /\ buf' = NULL /\ r' = 0 /\ fpc' = "hdr" /\ nread' = 0
  /\ len' = [hi |-> 0, lo |-> 0]
  /\ sentQ' = IF sentQ # <<>> THEN Tail(sentQ) ELSE sentQ
  /\ UNCHANGED <<exitWhy, connVars, ppc, pframe, viewVars, cacheVars, heap, histVars>>
  /\ UNCHANGED nocamVars
  /\ UNCHANGED meshVars
  /\ UNCHANGED orderVars

\* c.stop(); handleFeedClient returns to loop() and its locals are gone.
\* The producer's write on the closed connection returns with the rest of
\* its frame lost, and its next loop() finds client.connected() false.
FeedStop ==
  /\ fpc = "stop"
  /\ IF queued
       THEN /\ relayEnd' = "pending" /\ peerKind' = "nocam" /\ peerOpen' = TRUE
            /\ wire' = qwire
       ELSE /\ relayEnd' = "none" /\ peerKind' = "cam" /\ peerOpen' = FALSE
            /\ wire' = <<>>
  /\ queued' = FALSE /\ qwire' = <<>> /\ UNCHANGED npc
  /\ fpc' = "idle" /\ r' = 0 /\ nread' = 0 /\ exitWhy' = "none"
  /\ len' = [hi |-> 0, lo |-> 0]
  /\ sentQ' = <<>> /\ pframe' = <<>>
  /\ ppc' = IF ppc = "data" THEN "loop" ELSE ppc
  /\ rawWrites' = 0
  /\ UNCHANGED <<buf, viewVars, cacheVars, frameMutex, heap, histVars, meshVars>>
  /\ UNCHANGED orderVars

\* ------------------------------------------------ relay: stream_handler
notView == <<feedVars, connVars, camVars>>
\* The three chunks of one multipart part.
PartHeader(n) == [kind |-> "header", length |-> n]
PartBody(b) == [kind |-> "body", bytes |-> b]
PartBoundary == [kind |-> "boundary"]

\* GET /stream: httpd_resp_set_type, then the first cycle.  tmpbuf = NULL,
\* tmplen = 0 at the top of every cycle.
StreamStart(v) ==
  /\ vpc[v] = "idle"
  /\ vpc' = [vpc EXCEPT ![v] = "take"]
  /\ UNCHANGED <<tmpbuf, tmplen, out, copies, snap, notView, cacheVars, frameMutex,
                 heap, histVars>>
  /\ UNCHANGED timedOut
  /\ UNCHANGED nocamVars
  /\ UNCHANGED meshVars
  /\ UNCHANGED orderVars

\* xSemaphoreTake(frameMutex, pdMS_TO_TICKS(1000)) == pdTRUE
StreamTake(v) ==
  /\ vpc[v] = "take" /\ frameMutex = Unlocked
  /\ frameMutex' = HeldByViewer(v)
  /\ vpc' = [vpc EXCEPT ![v] = "copy"]
  /\ UNCHANGED <<tmpbuf, tmplen, out, copies, snap, notView, cacheVars, heap, histVars>>
  /\ UNCHANGED timedOut
  /\ UNCHANGED nocamVars
  /\ UNCHANGED meshVars
  /\ UNCHANGED orderVars

\* A mutant of StreamTakeTimeout: xSemaphoreTake(frameMutex, portMAX_DELAY)
\* never returns pdFALSE.
StreamTakeForever(v) ==
  /\ vpc[v] = "take" /\ FALSE
  /\ UNCHANGED vars

\* The mutex stayed taken for 1000 ms: tmpbuf stays NULL;
\* if (!tmpbuf) { vTaskDelay(50); continue; }
StreamTakeTimeout(v) ==
  /\ vpc[v] = "take" /\ frameMutex # Unlocked
  /\ vpc' = [vpc EXCEPT ![v] = "delay"]
  /\ UNCHANGED <<tmpbuf, tmplen, out, copies, snap, notView, cacheVars, frameMutex,
                 heap, histVars>>
  /\ timedOut' = [timedOut EXCEPT ![v] = TRUE]
  /\ UNCHANGED nocamVars
  /\ UNCHANGED meshVars
  /\ UNCHANGED orderVars

\* A mutant of StreamCopy: no copy is made, tmpbuf = latest_frame; the
\* responder keeps the cache's buffer itself.
StreamCopyAlias(v) ==
  /\ vpc[v] = "copy"
  /\ vpc' = [vpc EXCEPT ![v] = "give"]
  /\ IF latest_frame # NULL /\ latest_len > 0
       THEN /\ tmplen' = [tmplen EXCEPT ![v] = latest_len]
            /\ tmpbuf' = [tmpbuf EXCEPT ![v] = latest_frame]
            /\ copies' = [copies EXCEPT ![v] = Min(@ + 1, 2)]
            /\ snap' = [snap EXCEPT ![v] = heap[latest_frame].data]
       ELSE UNCHANGED <<tmpbuf, tmplen, copies, snap>>
  /\ UNCHANGED <<out, heap, notView, cacheVars, frameMutex, histVars>>
  /\ UNCHANGED timedOut
  /\ UNCHANGED nocamVars
  /\ UNCHANGED meshVars
  /\ UNCHANGED orderVars

\* A mutant of StreamCopy: the test `latest_frame && latest_len > 0` is
\* dropped; malloc(0) returns a cell.
StreamCopyNoCheck(v) ==
  /\ vpc[v] = "copy"
  /\ vpc' = [vpc EXCEPT ![v] = "give"]
  /\ tmplen' = [tmplen EXCEPT ![v] = latest_len]
  /\ LET src == IF latest_frame = NULL THEN <<>> ELSE heap[latest_frame].data
     IN /\ tmpbuf' = [tmpbuf EXCEPT ![v] = Malloc(2 + v)]
        /\ heap' = [heap EXCEPT ![Malloc(2 + v)] =
             [alive |-> TRUE, size |-> latest_len,
              data |-> Take(src, Min(latest_len, Len(src)))]]
        /\ snap' = [snap EXCEPT ![v] = src]
  /\ copies' = [copies EXCEPT ![v] = Min(@ + 1, 2)]
  /\ UNCHANGED <<out, notView, cacheVars, frameMutex, histVars>>
  /\ UNCHANGED timedOut
  /\ UNCHANGED nocamVars
  /\ UNCHANGED meshVars
  /\ UNCHANGED orderVars

\* if (latest_frame && latest_len > 0) { tmplen = latest_len;
\*   tmpbuf = malloc(tmplen); if (tmpbuf) memcpy(tmpbuf, latest_frame, tmplen); }
\* malloc may fail.
StreamCopy(v) ==
  /\ vpc[v] = "copy"
  /\ vpc' = [vpc EXCEPT ![v] = "give"]
  /\ IF latest_frame # NULL /\ latest_len > 0
       THEN /\ tmplen' = [tmplen EXCEPT ![v] = latest_len]
            /\ \/ UNCHANGED <<tmpbuf, heap, copies, snap>>
               \/ /\ Malloc(2 + v) # NULL
                  /\ tmpbuf' = [tmpbuf EXCEPT ![v] = Malloc(2 + v)]
                  /\ heap' = [heap EXCEPT ![Malloc(2 + v)] =
                       [alive |-> TRUE, size |-> latest_len,
                        data |-> Take(heap[latest_frame].data,
                                      Min(latest_len, Len(heap[latest_frame].data)))]]
                  /\ copies' = [copies EXCEPT ![v] = Min(@ + 1, 2)]
                  /\ snap' = [snap EXCEPT ![v] = heap[latest_frame].data]
       ELSE UNCHANGED <<tmpbuf, tmplen, heap, copies, snap>>
  /\ UNCHANGED <<out, notView, cacheVars, frameMutex, histVars>>
  /\ UNCHANGED timedOut
  /\ UNCHANGED nocamVars
  /\ UNCHANGED meshVars
  /\ UNCHANGED orderVars

\* A mutant of StreamGive: the test is inverted, if (tmpbuf) { free(tmpbuf);
\* vTaskDelay(50); continue; }, so a cycle that has a copy sleeps too.
StreamGiveRetry(v) ==
  /\ vpc[v] = "give"
  /\ frameMutex' = Unlocked
  /\ vpc' = [vpc EXCEPT ![v] = "delay"]
  /\ heap' = IF tmpbuf[v] = NULL THEN heap ELSE Free(heap, tmpbuf[v])
  /\ tmpbuf' = [tmpbuf EXCEPT ![v] = NULL]
  /\ tmplen' = [tmplen EXCEPT ![v] = 0]
  /\ copies' = [copies EXCEPT ![v] = 0]
  /\ snap' = [snap EXCEPT ![v] = <<>>]
  /\ UNCHANGED <<out, timedOut, notView, cacheVars, histVars>>
  /\ UNCHANGED nocamVars
  /\ UNCHANGED meshVars
  /\ UNCHANGED orderVars

\* A mutant of StreamGive: a copy equal to the body of the viewer's last
\* part is not sent, if (!tmpbuf || unchanged) { free(tmpbuf);
\* vTaskDelay(50); continue; }
StreamGiveIfChanged(v) ==
  /\ vpc[v] = "give"
  /\ frameMutex' = Unlocked
  /\ LET skip == tmpbuf[v] = NULL \/ heap[tmpbuf[v]].data = prevBody[v]
     IN /\ vpc' = [vpc EXCEPT ![v] = IF skip THEN "delay" ELSE "send_header"]
        /\ heap' = IF skip THEN Free(heap, tmpbuf[v]) ELSE heap
        /\ tmpbuf' = [tmpbuf EXCEPT ![v] = IF skip THEN NULL ELSE @]
        /\ tmplen' = [tmplen EXCEPT ![v] = IF skip THEN 0 ELSE @]
        /\ copies' = [copies EXCEPT ![v] = IF skip THEN 0 ELSE @]
        /\ snap' = [snap EXCEPT ![v] = IF skip THEN <<>> ELSE @]
  /\ UNCHANGED <<out, notView, cacheVars, histVars>>
  /\ UNCHANGED timedOut
  /\ UNCHANGED nocamVars
  /\ UNCHANGED meshVars
  /\ UNCHANGED orderVars

\* A mutant of StreamGive: xSemaphoreGive(frameMutex) moved below the
\* if (!tmpbuf) block, so the cycle without a copy sleeps holding the mutex.
StreamGiveAfterDelay(v) ==
  /\ vpc[v] = "give"
  /\ frameMutex' = IF tmpbuf[v] = NULL THEN frameMutex ELSE Unlocked
  /\ vpc' = [vpc EXCEPT ![v] = IF tmpbuf[v] = NULL THEN "delay" ELSE "send_header"]
  /\ tmplen' = [tmplen EXCEPT ![v] = IF tmpbuf[v] = NULL THEN 0 ELSE @]
  /\ UNCHANGED <<tmpbuf, out, copies, snap, notView, cacheVars, heap, histVars>>
  /\ UNCHANGED timedOut
  /\ UNCHANGED nocamVars
  /\ UNCHANGED meshVars
  /\ UNCHANGED orderVars

\* xSemaphoreGive(frameMutex); then if (!tmpbuf) ... else the sends.
\* (The tmplen of a cycle without a copy is not read again; it is reset
\* here, as `size_t tmplen = 0` does at the top of the next cycle.)
StreamGive(v) ==
  /\ vpc[v] = "give"
  /\ frameMutex' = Unlocked
  /\ vpc' = [vpc EXCEPT ![v] = IF tmpbuf[v] = NULL THEN "delay" ELSE "send_header"]
  /\ tmplen' = [tmplen EXCEPT ![v] = IF tmpbuf[v] = NULL THEN 0 ELSE @]
  /\ UNCHANGED <<tmpbuf, out, copies, snap, notView, cacheVars, heap, histVars>>
  /\ UNCHANGED timedOut
  /\ UNCHANGED nocamVars
  /\ UNCHANGED meshVars
  /\ UNCHANGED orderVars

\* vTaskDelay(pdMS_TO_TICKS(50)); continue;
StreamDelay(v) ==
  /\ vpc[v] = "delay"
  /\ vpc' = [vpc EXCEPT ![v] = "take"]
  /\ UNCHANGED <<tmpbuf, tmplen, out, copies, snap, notView, cacheVars, frameMutex, heap, histVars>>
  /\ timedOut' = [timedOut EXCEPT ![v] = FALSE]
  /\ UNCHANGED nocamVars
  /\ UNCHANGED meshVars
  /\ UNCHANGED orderVars

\* A mutant of StreamFail: free(latest_frame) in place of free(tmpbuf), and
\* the cache pointer cleared.
StreamFailFreesCache(v) ==
  /\ heap' = Free(heap, latest_frame)
  /\ tmpbuf' = [tmpbuf EXCEPT ![v] = NULL]
  /\ tmplen' = [tmplen EXCEPT ![v] = 0]
  /\ vpc' = [vpc EXCEPT ![v] = "done"]
  /\ out' = [out EXCEPT ![v] = <<>>]
  /\ copies' = [copies EXCEPT ![v] = 0]
  /\ snap' = [snap EXCEPT ![v] = <<>>]

\* httpd_resp_send_chunk failed (the viewer is gone): free(tmpbuf); break;
StreamFail(v) ==
  /\ heap' = Free(heap, tmpbuf[v])
  /\ tmpbuf' = [tmpbuf EXCEPT ![v] = NULL]
  /\ tmplen' = [tmplen EXCEPT ![v] = 0]
  /\ vpc' = [vpc EXCEPT ![v] = "done"]
  /\ out' = [out EXCEPT ![v] = <<>>]
  /\ copies' = [copies EXCEPT ![v] = 0]
  /\ snap' = [snap EXCEPT ![v] = <<>>]

\* A mutant of StreamSendHeader: the break after a failed send is
\* forgotten, if (res != ESP_OK) { free(tmpbuf); }
StreamSendHeaderNoBreak(v) ==
  /\ vpc[v] = "send_header"
  /\ \/ /\ out' = [out EXCEPT ![v] = <<PartHeader(tmplen[v])>>]
        /\ copies' = [copies EXCEPT ![v] = 0]
        /\ UNCHANGED heap
     \/ /\ heap' = Free(heap, tmpbuf[v])
        /\ UNCHANGED <<out, copies>>
  /\ vpc' = [vpc EXCEPT ![v] = "send_body"]
  /\ UNCHANGED <<tmpbuf, tmplen, snap, notView, cacheVars, frameMutex, histVars>>
  /\ UNCHANGED timedOut
  /\ UNCHANGED nocamVars
  /\ UNCHANGED meshVars
  /\ UNCHANGED orderVars

\* hlen = snprintf(part_buf, ..., _STREAM_PART, tmplen);
\* res = httpd_resp_send_chunk(req, part_buf, hlen);
StreamSendHeader(v) ==
  /\ vpc[v] = "send_header"
  /\ \/ /\ out' = [out EXCEPT ![v] = <<PartHeader(tmplen[v])>>]
        /\ copies' = [copies EXCEPT ![v] = 0]
        /\ vpc' = [vpc EXCEPT ![v] = "send_body"]
        /\ UNCHANGED <<tmpbuf, tmplen, heap, snap>>
     \/ StreamFail(v)
  /\ UNCHANGED <<notView, cacheVars, frameMutex, histVars>>
  /\ UNCHANGED timedOut
  /\ UNCHANGED nocamVars
  /\ UNCHANGED meshVars
  /\ UNCHANGED orderVars

\* A mutant of StreamSendBody: the body is sent from the cache,
\* httpd_resp_send_chunk(req, latest_frame, latest_len), not from the copy.
StreamSendBodyFromCache(v) ==
  /\ vpc[v] = "send_body"
  /\ \/ /\ out' = [out EXCEPT ![v] = Append(@, PartBody(Take(heap[latest_frame].data,
                    Min(latest_len, Len(heap[latest_frame].data)))))]
        /\ vpc' = [vpc EXCEPT ![v] = "send_boundary"]
        /\ UNCHANGED <<tmpbuf, tmplen, heap, copies, snap>>
     \/ StreamFail(v)
  /\ UNCHANGED <<notView, cacheVars, frameMutex, histVars>>
  /\ UNCHANGED timedOut
  /\ UNCHANGED nocamVars
  /\ UNCHANGED meshVars
  /\ UNCHANGED orderVars

\* The earliest publication, not before publication `from`, that frame b
\* can be of; past the end of the record when there is none.
PubIndex(b, from) ==
  LET cand == {i \in 1..Len(pubLog) : i >= from /\ pubLog[i] = b}
  IN IF cand = {} THEN Len(pubLog) + 1
     ELSE CHOOSE i \in cand : \A j \in cand : i <= j

\* A mutant of StreamSendBody: tmpbuf is shared by the handler's tasks, so
\* the body is sent from any responder's copy.
StreamSendBodyOtherCopy(v) ==
  /\ vpc[v] = "send_body"
  /\ \/ /\ \E w \in Viewers :
               /\ tmpbuf[w] # NULL
               /\ out' = [out EXCEPT ![v] = Append(@, PartBody(heap[tmpbuf[w]].data))]
        /\ vpc' = [vpc EXCEPT ![v] = "send_boundary"]
        /\ UNCHANGED <<tmpbuf, tmplen, heap, copies, snap>>
        /\ sentAt' = IF tracking
                       THEN [sentAt EXCEPT ![v] = PubIndex(out'[v][2].bytes, @)]
                       ELSE sentAt
     \/ StreamFail(v) /\ UNCHANGED sentAt
  /\ UNCHANGED <<notView, cacheVars, frameMutex, histVars>>
  /\ UNCHANGED timedOut
  /\ UNCHANGED nocamVars
  /\ UNCHANGED meshVars
  /\ UNCHANGED <<tracking, pubLog, prevBody>>

\* res = httpd_resp_send_chunk(req, (const char*)tmpbuf, tmplen);
StreamSendBody(v) ==
  /\ vpc[v] = "send_body"
  /\ \/ /\ out' = [out EXCEPT ![v] = Append(@, PartBody(Take(heap[tmpbuf[v]].data,
                    Min(tmplen[v], Len(heap[tmpbuf[v]].data)))))]
        /\ vpc' = [vpc EXCEPT ![v] = "send_boundary"]
        /\ UNCHANGED <<tmpbuf, tmplen, heap, copies, snap>>
        /\ sentAt' = IF tracking
                       THEN [sentAt EXCEPT ![v] = PubIndex(out'[v][2].bytes, @)]
                       ELSE sentAt
     \/ StreamFail(v) /\ UNCHANGED sentAt
  /\ UNCHANGED <<notView, cacheVars, frameMutex, histVars>>
  /\ UNCHANGED timedOut
  /\ UNCHANGED nocamVars
  /\ UNCHANGED meshVars
  /\ UNCHANGED <<tracking, pubLog, prevBody>>

\* A mutant of StreamSendBoundary: the failure test comes first,
\* if (res != ESP_OK) break; free(tmpbuf);
StreamSendBoundaryBreakFirst(v) ==
  /\ vpc[v] = "send_boundary"
  /\ tmpbuf' = [tmpbuf EXCEPT ![v] = NULL]
  /\ tmplen' = [tmplen EXCEPT ![v] = 0]
  /\ \/ /\ out' = [out EXCEPT ![v] = Append(@, PartBoundary)]
        /\ vpc' = [vpc EXCEPT ![v] = "pace"]
        /\ heap' = Free(heap, tmpbuf[v])
        /\ UNCHANGED snap
     \/ /\ vpc' = [vpc EXCEPT ![v] = "done"]
        /\ out' = [out EXCEPT ![v] = <<>>]
        /\ snap' = [snap EXCEPT ![v] = <<>>]
        /\ UNCHANGED heap
  /\ UNCHANGED copies
  /\ UNCHANGED <<notView, cacheVars, frameMutex, histVars>>
  /\ UNCHANGED timedOut
  /\ UNCHANGED nocamVars
  /\ UNCHANGED meshVars
  /\ UNCHANGED orderVars

\* res = httpd_resp_send_chunk(req, _STREAM_BOUNDARY, ...); free(tmpbuf);
\* if (res != ESP_OK) break;
StreamSendBoundary(v) ==
  /\ vpc[v] = "send_boundary"
  /\ heap' = Free(heap, tmpbuf[v])
  /\ tmpbuf' = [tmpbuf EXCEPT ![v] = NULL]
  /\ tmplen' = [tmplen EXCEPT ![v] = 0]
  /\ \/ /\ out' = [out EXCEPT ![v] = Append(@, PartBoundary)]
        /\ vpc' = [vpc EXCEPT ![v] = "pace"]
        /\ UNCHANGED snap
     \/ /\ vpc' = [vpc EXCEPT ![v] = "done"]
        /\ out' = [out EXCEPT ![v] = <<>>]
        /\ snap' = [snap EXCEPT ![v] = <<>>]
  /\ UNCHANGED copies
  /\ UNCHANGED <<notView, cacheVars, frameMutex, histVars>>
  /\ UNCHANGED timedOut
  /\ UNCHANGED nocamVars
  /\ UNCHANGED meshVars
  /\ UNCHANGED orderVars

\* vTaskDelay(pdMS_TO_TICKS(10)); the next cycle, and its part, start.
StreamPace(v) ==
  /\ vpc[v] = "pace"
  /\ vpc' = [vpc EXCEPT ![v] = "take"]
  /\ out' = [out EXCEPT ![v] = <<>>]
  /\ snap' = [snap EXCEPT ![v] = <<>>]
  /\ UNCHANGED <<tmpbuf, tmplen, copies, notView, cacheVars, frameMutex,
                 heap, histVars>>
  /\ UNCHANGED timedOut
  /\ UNCHANGED nocamVars
  /\ UNCHANGED meshVars
  /\ prevBody' = IF tracking THEN [prevBody EXCEPT ![v] = out[v][2].bytes]
                 ELSE prevBody
  /\ UNCHANGED <<tracking, pubLog, sentAt>>

\* ------------------------------------------------------- specification
Producer ==
  \/ CamReconnect
  \/ \E f \in CamFrames : CamSendHeader(f)
  \/ CamSendData
  \/ RawConnect
  \/ \E u \in RawUnits : RawWrite(u)
  \/ RawClose

Feed ==
  \/ FeedAccept \/ FeedDisconnected \/ FeedHeaderTimeout \/ FeedReadHeader
  \/ FeedReadPayload \/ FeedPayloadTimeout
  \/ FeedTake \/ FeedTakeTimeout \/ FeedStoreFrame \/ FeedStoreLen \/ FeedGive
  \/ FeedStop

Stream(v) ==
  \/ StreamStart(v) \/ StreamTake(v) \/ StreamTakeTimeout(v) \/ StreamCopy(v)
  \/ StreamGive(v) \/ StreamDelay(v) \/ StreamSendHeader(v) \/ StreamSendBody(v)
  \/ StreamSendBoundary(v) \/ StreamPace(v)

Next ==
  \/ Producer
  \/ Feed
  \/ \E v \in Viewers : Stream(v)

Spec == Init /\ [][Next]_vars

\* The deployment with both producer nodes: the camera node, whose failed
\* connects are now steps of their own, and the no-camera node.
NoCam == NoCamConnect \/ NoCamConnectFail \/ NoCamBackoff \/ NoCamWrite
FieldNext == Next \/ CamConnectFail \/ CamBackoff \/ NoCam
FieldSpec == Init /\ [][FieldNext]_vars

\* A peer that stalls inside a header: it writes 2 bytes and no more.
ShortUnit == <<0, 0>>
StallNext == Next \/ RawWrite(ShortUnit)
StallSpec == Init /\ [][StallNext]_vars

\* The relay with the record of published and sent frames kept.
OrderInit == ProgramInit /\ tracking = TRUE
OrderSpec == OrderInit /\ [][Next]_vars

\* ------------------------------------------------- peer-mesh relay node
\* The client slot manager and the mesh broadcast of the relay engine.  One
\* task runs them, so each operation is one step.
relayNodeVars == <<feedVars, connVars, camVars, cacheVars, frameMutex, heap, viewVars,
                   histVars, nocamVars, orderVars>>

\* A slot is active iff it holds a connection and that connection is open.
IsActive(s) == clients[s] # 0 /\ link[clients[s]] = "open"
\* The k-th byte peer c sends.
MeshByte(c, k) == <<c, k>>
\* Everything peer c has sent so far, and how much of it the relay has read.
Sent(c) == [k \in 1..nsent[c] |-> MeshByte(c, k)]
Drained(c) == nsent[c] - Len(inbox[c])
RECURSIVE SumSent(_)
SumSent(S) ==
  IF S = {} THEN 0
  ELSE LET c == CHOOSE x \in S : TRUE IN nsent[c] + SumSent(S \ {c})

\* A peer connects: its connection waits in the listen backlog.
PeerOffer(c) ==
  /\ link[c] = "new"
  /\ link' = [link EXCEPT ![c] = "pending"]
  /\ backlog' = Append(backlog, c)
  /\ UNCHANGED <<clients, inbox, outbox, nsent, since, relayNodeVars>>

\* A peer writes one byte on its open connection.
PeerSend(c) ==
  /\ link[c] = "open"
  /\ SumSent(Conns) < MeshBytes
  /\ nsent' = [nsent EXCEPT ![c] = @ + 1]
  /\ inbox' = [inbox EXCEPT ![c] = Append(@, MeshByte(c, nsent[c] + 1))]
  /\ UNCHANGED <<clients, backlog, link, outbox, since, relayNodeVars>>

\* A peer closes its connection (or is lost): what was in flight is gone.
PeerClose(c) ==
  /\ link[c] = "open"
  /\ link' = [link EXCEPT ![c] = "closed"]
  /\ inbox' = [inbox EXCEPT ![c] = <<>>]
  /\ outbox' = [outbox EXCEPT ![c] = <<>>]
  /\ since' = [since EXCEPT ![c] = [a \in Conns |-> 0]]
  /\ UNCHANGED <<clients, backlog, nsent, relayNodeVars>>

\* accept_if_pending() with every slot taken: the new connection is dropped.
accept_if_pending_evict ==
  /\ backlog # <<>>
  /\ LET c == Head(backlog)
         free == {s \in Slots : ~IsActive(s)}
         s == IF free # {} THEN CHOOSE x \in free : \A y \in free : x <= y ELSE 1
     IN /\ clients' = [clients EXCEPT ![s] = c]
        /\ link' = [link EXCEPT ![c] = "open"]
        /\ since' = [since EXCEPT ![c] = [a \in Conns |-> Drained(a)]]
  /\ backlog' = Tail(backlog)
  /\ UNCHANGED <<inbox, outbox, nsent, relayNodeVars>>

\* accept_if_pending(): the oldest pending connection goes into the first
\* slot whose connection is absent or no longer connected; with no such
\* slot it is dropped.
accept_if_pending ==
  /\ backlog # <<>>
  /\ LET c == Head(backlog)
         free == {s \in Slots : ~IsActive(s)}
     IN IF free # {}
          THEN LET s == CHOOSE x \in free : \A y \in free : x <= y
               IN /\ clients' = [clients EXCEPT ![s] = c]
                  /\ link' = [link EXCEPT ![c] = "open"]
                  /\ since' = [since EXCEPT ![c] = [a \in Conns |-> Drained(a)]]
          ELSE /\ link' = [link EXCEPT ![c] = "refused"]
               /\ UNCHANGED <<clients, since>>
  /\ backlog' = Tail(backlog)
  /\ UNCHANGED <<inbox, outbox, nsent, relayNodeVars>>

\* reap(): every slot whose connection reports disconnected is freed.
reap ==
  /\ \E s \in Slots : clients[s] # 0 /\ ~IsActive(s)
  /\ clients' = [s \in Slots |-> IF IsActive(s) THEN clients[s] ELSE 0]
  /\ UNCHANGED <<backlog, link, inbox, outbox, nsent, since, relayNodeVars>>

\* Mesh broadcast that also writes the chunk back to its sender.
mesh_broadcast_echo(i) ==
  /\ IsActive(i) /\ inbox[clients[i]] # <<>>
  /\ LET c == clients[i]
         n == Min(Len(inbox[c]), ChunkMax)
         chunk == Take(inbox[c], n)
         dest == {clients[j] : j \in {k \in Slots : IsActive(k)}}
     IN /\ inbox' = [inbox EXCEPT ![c] = Drop(@, n)]
        /\ outbox' = [d \in Conns |-> IF d \in dest THEN outbox[d] \o chunk
                                      ELSE outbox[d]]
  /\ UNCHANGED <<clients, backlog, link, nsent, since, relayNodeVars>>

\* Mesh broadcast of slot i: one bounded chunk is drained from it and
\* written, as read, to every other active slot.
mesh_broadcast(i) ==
  /\ IsActive(i) /\ inbox[clients[i]] # <<>>
  /\ LET c == clients[i]
         n == Min(Len(inbox[c]), ChunkMax)
         chunk == Take(inbox[c], n)
         dest == {clients[j] : j \in {k \in Slots : k # i /\ IsActive(k)}}
     IN /\ inbox' = [inbox EXCEPT ![c] = Drop(@, n)]
        /\ outbox' = [d \in Conns |-> IF d \in dest THEN outbox[d] \o chunk
                                      ELSE outbox[d]]
  /\ UNCHANGED <<clients, backlog, link, nsent, since, relayNodeVars>>

MeshNext ==
  \/ \E c \in Conns : PeerOffer(c) \/ PeerSend(c) \/ PeerClose(c)
  \/ accept_if_pending
  \/ reap
  \/ \E i \in Slots : mesh_broadcast(i)
MeshSpec == Init /\ [][MeshNext]_vars

\* The HTTP server task is scheduled, and xSemaphoreTake returns after at
\* most its timeout: a responder that can take a step takes one.  Nothing
\* is assumed of the feed loop or of the producer, which may stall.
ViewerFairSpec == Spec /\ \A v \in Viewers : WF_vars(Stream(v))

\* ============================================================== claims
\* The cache holds frame f.
CacheHolds(f) ==
  /\ latest_frame # NULL
  /\ heap[latest_frame].alive
  /\ heap[latest_frame].data = f
  /\ latest_len = Len(f)
\* The bytes viewer v's private copy holds.
CopyOf(v) == heap[tmpbuf[v]].data
Kinds(chunks) == [i \in 1..Len(chunks) |-> chunks[i].kind]

\* C1: torn-read freedom.  Whatever the interleaving of the feed loop's
\* store with the viewers' snapshots, the copy a responder holds is, byte
\* for byte, one frame that was fully published, and tmplen is that frame's
\* length.
TornReadFree ==
  \A v \in Viewers :
    tmpbuf[v] # NULL =>
      /\ heap[tmpbuf[v]].alive
      /\ CopyOf(v) \in published
      /\ tmplen[v] = Len(CopyOf(v))
      /\ heap[tmpbuf[v]].size = tmplen[v]

\* Two viewers hold copies of two different frames while the feed loop
\* waits for the mutex with a third decode.
TornReadFreeWitness ==
  /\ vpc[1] = "send_body" /\ tmpbuf[1] # NULL /\ CopyOf(1) = DeadBeef
  /\ vpc[2] = "give" /\ tmpbuf[2] # NULL /\ CopyOf(2) = <<7>>
  /\ fpc = "lock"

\* C2 as stated: once two frames have been published, a snapshot returns
\* the later one's bytes and length, never the earlier one and never
\* "no frame".
LatestWinsAlways ==
  \A v \in Viewers :
    (vpc[v] = "give" /\ Cardinality(published) >= 2) =>
      /\ tmpbuf[v] # NULL
      /\ CopyOf(v) = lastPub /\ tmplen[v] = Len(lastPub)

\* C2, amended: a snapshot that got the mutex and whose malloc succeeded
\* holds exactly the bytes and the length of the frame published last; a
\* snapshot whose lock wait timed out or whose malloc failed holds no frame.
LatestWins ==
  \A v \in Viewers :
    /\ (vpc[v] = "give" /\ tmpbuf[v] # NULL) =>
         /\ lastPub # <<>>
         /\ CopyOf(v) = lastPub /\ tmplen[v] = Len(lastPub)
    /\ vpc[v] = "delay" => tmpbuf[v] = NULL

\* f1 = <<7>> then f2 = DE AD BE EF were published, and a snapshot taken
\* after both holds f2.
LatestWinsWitness ==
  /\ published = CamFrames /\ lastPub = DeadBeef
  /\ vpc[1] = "give" /\ tmpbuf[1] # NULL /\ CopyOf(1) = DeadBeef

\* C3 as stated: every frame the feed loop decoded is in the cache when the
\* loop is back at the top of its read loop.
DecodedIsPublishedAlways ==
  (fpc = "hdr" /\ lastDecoded # <<>>) => CacheHolds(lastDecoded)

\* C3, amended: a decoded frame is in the cache when the loop is back at
\* the top of its read loop, unless the 200 ms wait for the mutex timed
\* out; then the frame is dropped and the cache is as it was.
DecodedIsPublished ==
  /\ (fpc = "hdr" /\ lastDecoded # <<>> /\ ~lastDropped) => CacheHolds(lastDecoded)
  /\ (fpc = "hdr" /\ lastDropped) =>
       IF lastPub = <<>> THEN latest_frame = NULL /\ latest_len = 0
       ELSE CacheHolds(lastPub)

\* The feed sent 00 00 00 04 DE AD BE EF: the cache holds DE AD BE EF,
\* length 4.
DecodedIsPublishedWitness ==
  /\ fpc = "hdr" /\ lastDecoded = DeadBeef /\ ~lastDropped
  /\ heap[latest_frame].data = DeadBeef /\ latest_len = 4

\* Lengths the header arithmetic is tried on: 1, a value in every byte
\* position, and the limit 5 MiB.
LenSamples == {1, 4, 255, 256, 65535, 65536, 70000, 5242879, 5242880}
IsPrefix(s, t) == Len(s) <= Len(t) /\ s = Take(t, Len(s))

\* C4: codec round trip.  The header sendFrameToPrimary writes for a length
\* in [1, 5 MiB] is decoded by handleFeedClient to that length and passes
\* its check; and a frame the producer wrote, in however many segments it
\* arrived, is decoded to a buffer of the same length and the same bytes.
CodecRoundTrip ==
  /\ \A n \in LenSamples :
       /\ DecodeLen(EncodeHeader(n)) = [hi |-> n \div 65536, lo |-> n % 65536]
       /\ U32Val(DecodeLen(EncodeHeader(n))) = n
       /\ ~BadLength(DecodeLen(EncodeHeader(n)))
  /\ (peerKind = "cam" /\ fpc = "payload") =>
       /\ sentQ # <<>>
       /\ U32Val(len) = Len(Head(sentQ))
       /\ IsPrefix(heap[buf].data, Head(sentQ)) /\ r = Len(heap[buf].data)
  /\ (peerKind = "cam" /\ fpc \in {"lock", "store_frame", "store_len", "give"}) =>
       /\ sentQ # <<>>
       /\ U32Val(len) = Len(Head(sentQ))
       /\ heap[buf].data = Head(sentQ)

\* DE AD BE EF arrived in more than one segment and is decoded.
CodecRoundTripWitness ==
  /\ peerKind = "cam" /\ fpc = "lock" /\ nread = 8
  /\ heap[buf].data = DeadBeef /\ sentQ # <<>> /\ Head(sentQ) = DeadBeef
  /\ heap[buf].size = 4 /\ len = [hi |-> 0, lo |-> 4]

\* C5: bad length.  A header of 0 or of more than 5 MiB ends the read loop
\* with only the 4 header bytes read and the cache untouched, and the
\* connection is then closed; a header of 1, of 4 or of exactly 5 MiB is
\* not rejected as a bad length.
BadLengthRejected ==
  [][ /\ (fpc = "hdr" /\ nread' = 4) =>
           LET h == Take(wire, 4)
           IN /\ h \in {<<0, 0, 0, 0>>, <<0, 80, 0, 1>>, DeadBeef} =>
                   /\ fpc' = "stop" /\ exitWhy' = "bad_length"
                   /\ wire' = Drop(wire, 4)
                   /\ UNCHANGED <<latest_frame, latest_len, heap, buf>>
              /\ h \in {<<0, 0, 0, 1>>, <<0, 0, 0, 4>>, <<0, 80, 0, 0>>} =>
                   /\ exitWhy' # "bad_length"
                   /\ fpc' = "payload" => heap'[buf'].size = U32Val(DecodeLen(h))
      /\ exitWhy' = "bad_length" => fpc' = "stop" /\ nread' = 4
      /\ (exitWhy = "bad_length" /\ fpc' # fpc) =>
           /\ fpc' = "idle" /\ relayEnd' = "none"
           /\ UNCHANGED <<latest_frame, latest_len, heap>>
    ]_vars

\* The feed sent 00 00 00 00 while the cache held a frame.
BadLengthRejectedWitness ==
  /\ fpc = "stop" /\ exitWhy = "bad_length" /\ len = [hi |-> 0, lo |-> 0]
  /\ nread = 4 /\ latest_frame # NULL /\ latest_len = 4

\* C6: a snapshot taken before any frame was published yields no frame: the
\* responder holds no copy, has sent no chunk, and only takes the mutex,
\* looks, gives it back and sleeps.
NoFrameBeforePublish ==
  lastPub = <<>> =>
    \A v \in Viewers :
      /\ tmpbuf[v] = NULL /\ out[v] = <<>>
      /\ vpc[v] \in {"idle", "take", "copy", "give", "delay"}

\* A responder holds the mutex and has looked at the empty cache.
NoFrameBeforePublishWitness ==
  /\ lastPub = <<>> /\ vpc[1] = "give" /\ frameMutex = HeldByViewer(1)
  /\ fpc = "lock"

\* C7: reader liveness under a stalled writer.  A responder waiting for the
\* mutex stops waiting, with the mutex or after the timeout, whoever holds
\* the mutex and for however long; after a timeout it holds no copy, has
\* sent nothing, has not ended, and goes on to sleep and to try again.
ReaderNeverWedged ==
  /\ [](\A v \in Viewers :
          timedOut[v] => vpc[v] = "delay" /\ tmpbuf[v] = NULL /\ out[v] = <<>>)
  /\ [][\A v \in Viewers :
          (vpc[v] = "take" /\ vpc'[v] # "take") =>
             \/ vpc'[v] = "copy" /\ frameMutex = Unlocked /\ frameMutex' = HeldByViewer(v)
             \/ vpc'[v] = "delay" /\ timedOut'[v] /\ frameMutex' = frameMutex
     ]_vars
  /\ \A v \in Viewers : (vpc[v] = "take") ~> (vpc[v] \in {"copy", "delay"})
  /\ \A v \in Viewers : timedOut[v] ~> (vpc[v] = "take")

\* A responder's wait timed out while the feed loop holds the mutex, and
\* the other responder waits for it.
ReaderNeverWedgedWitness ==
  /\ timedOut[1] /\ frameMutex = HeldByFeed /\ fpc = "store_len"
  /\ vpc[2] = "take"

\* C8: responder event order.  The chunks of a part go out as header, body,
\* boundary, one at a time, after exactly one copy; a responder ends only
\* at a failed send, and after it has ended it sends nothing.
SendStates == {"send_header", "send_body", "send_boundary"}
ResponderOrder ==
  /\ [](\A v \in Viewers :
          /\ vpc[v] = "send_header" => out[v] = <<>> /\ copies[v] = 1
          /\ vpc[v] = "send_body" => Kinds(out[v]) = <<"header">> /\ copies[v] = 0
          /\ vpc[v] = "send_boundary" => Kinds(out[v]) = <<"header", "body">> /\ copies[v] = 0
          /\ vpc[v] = "pace" => Kinds(out[v]) = <<"header", "body", "boundary">> /\ copies[v] = 0
          /\ vpc[v] \in {"idle", "take", "copy", "delay", "done"} =>
               out[v] = <<>> /\ copies[v] = 0
          /\ vpc[v] = "give" =>
               out[v] = <<>> /\ copies[v] = IF tmpbuf[v] = NULL THEN 0 ELSE 1)
  /\ [][\A v \in Viewers :
          /\ out'[v] # out[v] =>
               \/ out'[v] = <<>> /\ vpc'[v] \in {"take", "done"}
               \/ /\ vpc[v] \in SendStates
                  /\ Len(out'[v]) = Len(out[v]) + 1 /\ IsPrefix(out[v], out'[v])
          /\ (vpc[v] \in SendStates /\ vpc'[v] # vpc[v]) =>
               \/ Len(out'[v]) = Len(out[v]) + 1
               \/ vpc'[v] = "done"
          /\ vpc[v] = "done" => vpc'[v] = "done" /\ out'[v] = <<>>
          /\ (vpc[v] # "done" /\ vpc'[v] = "done") => vpc[v] \in SendStates
     ]_vars

\* A responder has sent a whole part and is pacing; another has ended.
ResponderOrderWitness ==
  /\ vpc[1] = "pace" /\ Len(out[1]) = 3
  /\ vpc[2] = "done"

\* C9: part consistency.  The Content-Length of a part's header is the
\* number of body bytes sent, and the body is the bytes the cache held when
\* the copy was taken, also when the feed loop has published another frame
\* since.
PartConsistent ==
  \A v \in Viewers :
    /\ Len(out[v]) >= 1 => out[v][1] = PartHeader(Len(snap[v]))
    /\ Len(out[v]) >= 2 =>
         /\ out[v][2] = PartBody(snap[v])
         /\ out[v][1].length = Len(out[v][2].bytes)
         /\ snap[v] \in published

\* The body DE AD BE EF was sent after <<7>> had replaced it in the cache.
PartConsistentWitness ==
  /\ Len(out[1]) = 2 /\ out[1][2].bytes = DeadBeef /\ out[1][1].length = 4
  /\ lastPub = <<7>> /\ latest_len = 1

Running(v) == vpc[v] \notin {"idle", "done"}
BodySent(v) == Len(out[v]) >= 2
\* The cache held a frame, and the copy step left tmpbuf NULL.
AllocFailed(v) == vpc[v] = "give" /\ tmpbuf[v] = NULL /\ lastPub # <<>>
\* While DE AD BE EF is the only frame published, every part sent carries
\* Content-Length 4 and those 4 bytes.
FirstPartIsTheFrame ==
  \A v \in Viewers :
    published = {DeadBeef} =>
      /\ Len(out[v]) >= 1 => out[v][1] = PartHeader(4)
      /\ Len(out[v]) >= 2 => out[v][2] = PartBody(DeadBeef)

\* C10 as stated: the first part has Content-Length 4 and the frame's
\* bytes, and once the frame is published a running responder sends the
\* part in its cycle, unless a send fails (the socket) or its wait for the
\* mutex times out (the lock).
FirstPartArrivesAlways ==
  /\ []FirstPartIsTheFrame
  /\ \A v \in Viewers :
       (lastPub # <<>> /\ Running(v)) ~>
          (BodySent(v) \/ vpc[v] = "done" \/ timedOut[v])

\* C10, amended: the first part has Content-Length 4 and the frame's bytes;
\* once a frame is published a responder sleeps the no-frame delay only
\* after a lock timeout or a failed malloc; and a running responder sends
\* the part in its cycle, unless a send fails, its wait for the mutex times
\* out, or its malloc fails.
FirstPartArrives ==
  /\ []FirstPartIsTheFrame
  /\ [][\A v \in Viewers :
          (lastPub # <<>> /\ vpc[v] # "delay" /\ vpc'[v] = "delay") =>
             \/ vpc[v] = "take" /\ timedOut'[v]
             \/ AllocFailed(v) /\ latest_frame # NULL /\ latest_len > 0
     ]_vars
  /\ \A v \in Viewers :
       (lastPub # <<>> /\ Running(v)) ~>
          (BodySent(v) \/ vpc[v] = "done" \/ timedOut[v] \/ AllocFailed(v))

\* The responder slept before the publish; DE AD BE EF is then the only
\* frame published and the responder has sent its header and its body.
FirstPartArrivesWitness ==
  /\ published = {DeadBeef} /\ vpc[1] = "send_boundary"
  /\ out[1] = <<PartHeader(4), PartBody(DeadBeef)>>

\* The state of responder v.
Responder(v) == <<vpc[v], tmpbuf[v], tmplen[v], out[v], copies[v], snap[v], timedOut[v]>>
FeedErrors == {"short_header", "bad_length", "malloc_failed", "short_read"}

\* C11: error locality.  The step in which a responder's send fails ends
\* that responder and changes nothing of the cache, the mutex, the feed
\* loop, the feed connection, the other responders or any buffer but the
\* responder's own copy.  The step in which the feed loop meets a bad
\* length, a short read or a failed malloc, and the step that then closes
\* the feed connection, change nothing of the cache, the mutex or the
\* responders.
ErrorsAreLocal ==
  [][ /\ \A v \in Viewers :
           (vpc[v] \in SendStates /\ vpc'[v] = "done") =>
              /\ UNCHANGED <<cacheVars, frameMutex, feedVars, connVars, camVars, histVars>>
              /\ \A w \in Viewers \ {v} : Responder(w)' = Responder(w)
              /\ \A c \in BufIds \ {tmpbuf[v]} : heap'[c] = heap[c]
      /\ (exitWhy' \in FeedErrors /\ exitWhy = "none") =>
              /\ fpc' = "stop"
              /\ UNCHANGED <<cacheVars, frameMutex, viewVars, lastPub, published>>
              /\ \A c \in BufIds \ {buf} : heap'[c] = heap[c]
      /\ (exitWhy \in FeedErrors /\ fpc' # fpc) =>
              /\ fpc' = "idle" /\ relayEnd' = "none"
              /\ UNCHANGED <<cacheVars, frameMutex, viewVars, heap, lastPub, published>>
    ]_vars

\* One responder has ended at a failed send and the feed connection at a
\* short read, while the other responder is sending from its copy of the
\* cached frame.
ErrorsAreLocalWitness ==
  /\ vpc[1] = "done" /\ vpc[2] = "send_body" /\ tmpbuf[2] # NULL
  /\ heap[tmpbuf[2]].alive
  /\ fpc = "stop" /\ exitWhy = "short_read"
  /\ latest_frame # NULL /\ heap[latest_frame].alive /\ latest_len > 0

\* C12: producer reconnect.  Either node tries to connect only from the top
\* of its loop and only when its client is not connected, a new connection
\* starts empty, and after a failed attempt the node only waits and goes
\* back to the top of its loop.  Bytes go onto a connection only while it
\* exists.  When the camera node loses its connection the rest of the
\* frame in hand is dropped, and every send starts with the header of a
\* newly captured frame.
ProducerReconnect ==
  /\ [](/\ relayEnd = "none" => wire = <<>>
        /\ ~queued => qwire = <<>>
        /\ ppc = "data" => CamConnected /\ pframe # <<>>
        /\ ppc = "backoff" => ~CamConnected /\ pframe = <<>> /\ sentQ = <<>>
        /\ npc = "backoff" => ~NoCamConnected)
  /\ [][ /\ (~CamConnected /\ CamConnected') =>
              /\ ppc = "loop" /\ ppc' = "loop" /\ relayEnd = "none"
              /\ wire' = <<>> /\ pframe' = <<>> /\ sentQ' = <<>>
         /\ (ppc # "backoff" /\ ppc' = "backoff") =>
              ppc = "loop" /\ ~CamConnected /\ UNCHANGED <<connVars, pframe, sentQ>>
         /\ (ppc = "backoff" /\ ppc' # "backoff") =>
              ppc' = "loop" /\ UNCHANGED <<connVars, pframe, sentQ>>
         /\ (~NoCamConnected /\ NoCamConnected') =>
              /\ npc = "loop" /\ npc' = "loop"
              /\ IF queued' THEN qwire' = <<>> /\ wire' = wire ELSE wire' = <<>>
         /\ (npc # "backoff" /\ npc' = "backoff") =>
              npc = "loop" /\ ~NoCamConnected /\ UNCHANGED <<connVars, queued, qwire>>
         /\ (npc = "backoff" /\ npc' # "backoff") =>
              npc' = "loop" /\ UNCHANGED <<connVars, queued, qwire>>
         /\ Len(wire') > Len(wire) => relayEnd # "none" /\ relayEnd' # "none"
         /\ Len(qwire') > Len(qwire) => queued /\ queued'
         /\ (CamConnected /\ ~CamConnected') =>
              pframe' = <<>> /\ sentQ' = <<>> /\ ppc' = "loop"
         /\ (ppc = "loop" /\ ppc' = "data") =>
              /\ pframe' \in CamFrames
              /\ wire' = wire \o EncodeHeader(Len(pframe'))
     ]_vars

\* Frames were published, the connections are gone, and both nodes wait
\* after a failed attempt to reconnect.
ProducerReconnectWitness ==
  /\ ppc = "backoff" /\ npc = "backoff" /\ relayEnd = "none"
  /\ published = CamFrames

\* Connections the mesh relay holds open, and the slots holding connection c.
OpenConns == {c \in Conns : link[c] = "open"}
SlotsOf(c) == {s \in Slots : clients[s] = c}
TableFull == \A s \in Slots : IsActive(s)

\* C13: the slot table is a hard admission ceiling.  At most MAX_CLIENTS
\* connections are open at the relay at any time and each of them sits in
\* exactly one slot.  Connections are taken oldest first; one is installed
\* only into the first slot that is not active, and the other slots are not
\* touched; one is dropped only when every slot is active, and the drop
\* leaves the table, the installed connections and their streams as they
\* were.
AdmissionCeiling ==
  [][ /\ Cardinality(OpenConns') <= MAX_CLIENTS
      /\ \A c \in OpenConns' : Cardinality(SlotsOf(c)') = 1
      /\ \A c \in Conns :
           /\ (link[c] = "pending" /\ link'[c] \in {"open", "refused"})
                => c = Head(backlog) /\ backlog' = Tail(backlog)
           /\ (link[c] = "pending" /\ link'[c] = "open")
                => \E s \in Slots :
                     /\ ~IsActive(s) /\ clients'[s] = c
                     /\ \A t \in Slots : t < s => IsActive(t)
                     /\ \A t \in Slots : t # s => clients'[t] = clients[t]
           /\ (link[c] = "pending" /\ link'[c] = "refused")
                => /\ TableFull
                   /\ clients' = clients /\ inbox' = inbox /\ outbox' = outbox
                   /\ \A d \in Conns : d # c => link'[d] = link[d]
           /\ link'[c] = "refused" => link[c] \in {"pending", "refused"}
    ]_vars

\* MAX_CLIENTS + 1 connections were offered together: the first MAX_CLIENTS
\* are installed and have exchanged bytes, the last one was dropped.
AdmissionCeilingWitness ==
  /\ \A s \in Slots : clients[s] = s /\ link[s] = "open" /\ outbox[s] # <<>>
  /\ link[MAX_CLIENTS + 1] = "refused"
  /\ backlog = <<>>

\* The bytes of sender a within a stream.
From(stream, a) == SelectSeq(stream, LAMBDA x : x[1] = a)

\* C14: mesh broadcast between open connections.  The outbound stream of an
\* open connection b holds, of every other sender a, exactly the bytes a
\* sent that the relay has read since b was installed: all of them, each as
\* it was sent, in the order read.  Nothing a sent is in a's own outbound
\* stream.
MeshDelivery ==
  \A b \in OpenConns :
    /\ From(outbox[b], b) = <<>>
    /\ \A a \in Conns \ {b} :
         LET got == From(outbox[b], a)
         IN /\ got = SubSeq(Sent(a), since[b][a] + 1, since[b][a] + Len(got))
            /\ link[a] = "open" => since[b][a] + Len(got) = Drained(a)

\* Slots 1 and 2 hold open connections; the peer in slot 1 has sent 10
\* bytes, which the relay has read and written to slot 2 in several chunks.
MeshDeliveryWitness ==
  /\ clients[1] = 1 /\ clients[2] = 2 /\ link[1] = "open" /\ link[2] = "open"
  /\ nsent[1] = 10 /\ inbox[1] = <<>>
  /\ outbox[2] = [k \in 1..10 |-> MeshByte(1, k)]
  /\ outbox[1] = <<>>

\* C15: one feed connection, one writer.  The relay reads from the one
\* connection handleFeedClient has accepted and from no other: a producer
\* that connects while a connection is pending or being served waits in the
\* listen backlog, where what it writes only accumulates, and it becomes
\* the relay's connection only in the step that closes the first one.  The
\* cache (latest_frame, latest_len) changes only in the feed loop's two
\* store steps, taken with frameMutex held by the feed loop; no responder
\* step changes it.
SingleFeedSingleWriter ==
  [][ /\ queued => relayEnd # "none"
      /\ (queued /\ queued') => IsPrefix(qwire, qwire') /\ relayEnd' # "none"
      /\ (queued /\ ~queued')
           => /\ fpc = "stop" /\ fpc' = "idle"
              /\ relayEnd' = "pending" /\ peerKind' = "nocam" /\ wire' = qwire
      /\ (~queued /\ queued') => relayEnd # "none" /\ wire' = wire /\ fpc' = fpc
      /\ (nread' # nread /\ nread' # 0) => relayEnd = "accepted" /\ qwire' = qwire
      /\ cacheVars' # cacheVars
           => /\ frameMutex = HeldByFeed
              /\ fpc \in {"store_frame", "store_len"}
              /\ viewVars' = viewVars
      /\ \A v \in Viewers : Responder(v)' # Responder(v) => cacheVars' = cacheVars
    ]_vars

\* The no-camera node has connected and written while the camera's frame is
\* being stored: its bytes wait unread.
SingleFeedSingleWriterWitness ==
  /\ queued /\ qwire = DeadBeef
  /\ relayEnd = "accepted" /\ peerKind = "cam"
  /\ fpc = "store_len" /\ frameMutex = HeldByFeed
  /\ \E v \in Viewers : vpc[v] = "send_body"

\* The feed loop has left its read loop on a decode error.
DecodeFailed == fpc = "stop" /\ exitWhy \in FeedErrors

\* C16: decode-error recovery.  A header read that comes up short, a length
\* of 0 or above 5 MiB, a failed allocation and a payload read that comes up
\* short each end the read loop.  In that step the payload buffer, if there
\* is one, is freed and was never the cached buffer, and the cache and the
\* record of published frames stay as they were.  After it the relay reads
\* nothing more from the connection and writes nothing to the cache; its
\* next step closes the connection and leaves it ready to accept.
DecodeErrorRecovery ==
  [][ /\ (fpc = "hdr" /\ nread' = 4 /\ BadLength(len')) => DecodeFailed'
      /\ (fpc = "payload" /\ r' < r) => DecodeFailed'
      /\ (~DecodeFailed /\ DecodeFailed') =>
           /\ exitWhy' = "short_header" => fpc = "hdr" /\ nread' < 4
           /\ exitWhy' = "bad_length" => fpc = "hdr" /\ BadLength(len')
           /\ exitWhy' = "malloc_failed" => fpc = "hdr" /\ ~BadLength(len')
           /\ exitWhy' = "short_read" =>
                /\ fpc = "payload" /\ r < U32Val(len)
                /\ Len(heap[buf].data) = r /\ buf # latest_frame
                /\ ~heap'[buf].alive
           /\ buf' = NULL
           /\ \A c \in BufIds : heap'[c].alive => heap'[c] = heap[c]
           /\ UNCHANGED <<cacheVars, frameMutex, lastPub, published>>
      /\ DecodeFailed =>
           /\ buf = NULL
           /\ UNCHANGED <<cacheVars, lastPub, published>>
           /\ feedVars' # feedVars =>
                /\ fpc' = "idle" /\ relayEnd' = "none" /\ wire' = <<>>
                /\ exitWhy' = "none" /\ nread' = 0 /\ buf' = NULL
    ]_vars

\* A payload read came up short after 1 of 4 bytes, with a frame cached:
\* the cache still holds the frame published before.
DecodeErrorRecoveryWitness ==
  /\ DecodeFailed /\ exitWhy = "short_read" /\ nread = 5
  /\ latest_frame # NULL /\ heap[latest_frame].alive
  /\ heap[latest_frame].data = lastPub /\ lastPub \in CamFrames

\* Where a responder sleeps, and where the feed loop reads its socket.
SleepStates == {"delay", "pace"}
ReadStates == {"hdr", "payload"}

\* C17: the mutex is not held across a send, a sleep or a socket read.  A
\* responder holds frameMutex only between its take and its give, where it
\* copies; when it sends a part header, body or boundary, and in either of
\* its delays, it does not hold it.  The feed loop holds it only from its
\* take to its give, where it stores; when it reads the socket it does not
\* hold it.  A send appends to the responder's output and a read consumes
\* socket bytes only in such steps.
MutexNotHeldAcrossIO ==
  [][ /\ \A v \in Viewers :
           /\ (frameMutex = HeldByViewer(v)) <=> (vpc[v] \in {"copy", "give"})
           /\ vpc[v] \in SendStates \cup SleepStates => frameMutex # HeldByViewer(v)
           /\ out'[v] # out[v] /\ out'[v] # <<>> =>
                vpc[v] \in SendStates /\ frameMutex # HeldByViewer(v)
           /\ vpc'[v] \in SleepStates => frameMutex' # HeldByViewer(v)
      /\ (frameMutex = HeldByFeed) <=> (fpc \in {"store_frame", "store_len", "give"})
      /\ fpc \in ReadStates => frameMutex # HeldByFeed
      /\ nread' # nread /\ nread' # 0 => fpc \in ReadStates /\ frameMutex # HeldByFeed
    ]_vars

\* One responder sleeps after a cycle without a copy and the other sends a
\* body, while the feed loop holds the mutex and replaces the cached frame.
MutexNotHeldAcrossIOWitness ==
  /\ vpc[1] = "delay" /\ vpc[2] = "send_body"
  /\ frameMutex = HeldByFeed /\ fpc = "store_frame" /\ latest_frame # NULL

\* Cell p is allocated; cell p is freed in this step.
Alive(p) == p # NULL /\ heap[p].alive
Freed(p) == Alive(p) /\ ~heap'[p].alive

\* C18: private copy, no use-after-free.  The cached buffer is copied from
\* only by a responder holding frameMutex and freed only by the feed loop
\* holding it, and it is allocated whenever the cache points to it.  A
\* responder's tmpbuf, while set, is an allocated cell that is neither the
\* cached buffer, nor the feed loop's buf, nor another responder's tmpbuf;
\* only that responder's own step frees it; and the body a responder sends
\* is the content of its own allocated tmpbuf.
PrivateCopy ==
  [][ /\ latest_frame # NULL => Alive(latest_frame)
      /\ Freed(latest_frame) =>
           /\ frameMutex = HeldByFeed /\ fpc = "store_frame"
           /\ latest_frame' # latest_frame
      /\ \A v \in Viewers :
           /\ tmpbuf[v] # NULL =>
                /\ Alive(tmpbuf[v])
                /\ tmpbuf[v] \notin {latest_frame, buf}
                /\ \A w \in Viewers \ {v} : tmpbuf[w] # tmpbuf[v]
           /\ (vpc[v] = "copy" /\ vpc'[v] # "copy") =>
                /\ frameMutex = HeldByViewer(v)
                /\ tmpbuf'[v] # NULL =>
                     /\ Alive(latest_frame)
                     /\ heap'[tmpbuf'[v]].data = heap[latest_frame].data
           /\ Freed(tmpbuf[v]) =>
                /\ vpc'[v] # vpc[v] /\ tmpbuf'[v] = NULL
                /\ UNCHANGED <<feedVars, cacheVars>>
           /\ (Len(out'[v]) = 2 /\ Len(out[v]) = 1) =>
                /\ Alive(tmpbuf[v])
                /\ out'[v][2] = PartBody(heap[tmpbuf[v]].data)
    ]_vars

\* A responder is about to send the body from its copy of a frame that the
\* feed loop has since replaced in the cache and freed.
PrivateCopyWitness ==
  /\ vpc[1] = "send_body" /\ Alive(tmpbuf[1])
  /\ heap[tmpbuf[1]].data = DeadBeef
  /\ Alive(latest_frame) /\ heap[latest_frame].data = <<7>>
  /\ fpc = "store_frame" /\ frameMutex = HeldByFeed

\* The buffers in use: the cache's, the feed loop's before it is stored,
\* and each responder's.
FeedOwns == IF fpc \in {"payload", "lock", "store_frame"} THEN {buf} ELSE {}
Owned == ({latest_frame} \cup FeedOwns \cup {tmpbuf[v] : v \in Viewers}) \ {NULL}
Allocated == {c \in BufIds : heap[c].alive}
Owners(c) ==
  (IF latest_frame = c THEN {"cache"} ELSE {})
    \cup (IF c \in FeedOwns THEN {"feed"} ELSE {})
    \cup {v \in Viewers : tmpbuf[v] = c}

\* C19: storage accounting.  The allocated buffers are exactly the buffers
\* in use, each with one owner: nothing allocated is without an owner
\* (leaked) and no pointer in use is to a freed buffer.  The feed loop has
\* no buffer outside a decode, and a responder none outside a cycle.  The
\* cache pointer changes only with the mutex held, to the feed loop's
\* decoded buffer, and in that same step the buffer it pointed to is freed.
\* On a short read and on a lock timeout the feed loop's buffer is freed,
\* and after a boundary send and after any failed send the responder's is,
\* each being allocated until that step.
StorageAccounting ==
  [][ /\ Allocated = Owned
      /\ \A c \in Allocated : Cardinality(Owners(c)) = 1
      /\ fpc \in {"idle", "hdr", "stop"} => buf = NULL
      /\ \A v \in Viewers :
           vpc[v] \in {"idle", "take", "delay", "pace", "done"} => tmpbuf[v] = NULL
      /\ latest_frame' # latest_frame =>
           /\ frameMutex = HeldByFeed /\ frameMutex' = HeldByFeed
           /\ latest_frame' = buf /\ Alive(buf)
           /\ latest_frame # NULL => Freed(latest_frame)
      /\ Cardinality(Allocated') < Cardinality(Allocated) =>
           Cardinality(Allocated') = Cardinality(Allocated) - 1
      /\ ((fpc = "payload" /\ fpc' = "stop") \/ (fpc = "lock" /\ fpc' = "hdr"))
           => Freed(buf) /\ buf' = NULL
      /\ \A v \in Viewers :
           (vpc[v] \in SendStates /\ vpc'[v] \in {"pace", "done"})
             => Freed(tmpbuf[v]) /\ tmpbuf'[v] = NULL
    ]_vars

\* Every kind of buffer is in use at once: a cached frame, a decoded frame
\* waiting for the mutex, and both responders' copies.
StorageAccountingWitness ==
  /\ Cardinality(Allocated) = 4
  /\ fpc = "lock" /\ latest_frame # NULL
  /\ vpc[1] = "send_boundary" /\ vpc[2] = "give"

\* The feed loop at the top of its read loop, nothing of a frame in hand.
AtLoopTop == feedVars = <<"hdr", [hi |-> 0, lo |-> 0], NULL, 0, 0, "none">>

\* C20: publisher lock timeout.  The feed loop leaves its wait for the
\* mutex without it only while another task holds it.  In that step the
\* decoded frame's buffer is freed, latest_frame, latest_len and the cached
\* bytes are untouched, the mutex stays with its holder, and the connection
\* and the bytes waiting on it are as before; the loop is back at the top
\* of its read loop, and the next 4 bytes it reads there are decoded as the
\* next header.
PublisherLockTimeout ==
  [][ /\ (fpc = "lock" /\ fpc' # "lock" /\ frameMutex' # HeldByFeed) =>
           /\ frameMutex # Unlocked /\ frameMutex' = frameMutex
           /\ Len(heap[buf].data) = U32Val(len) /\ lastDecoded = heap[buf].data
           /\ Freed(buf) /\ buf # latest_frame
           /\ UNCHANGED <<cacheVars, lastPub, published, connVars>>
           /\ latest_frame # NULL => heap'[latest_frame] = heap[latest_frame]
           /\ relayEnd = "accepted"
           /\ AtLoopTop' /\ lastDropped'
      /\ (lastDropped /\ fpc = "hdr") =>
           /\ AtLoopTop
           /\ IF lastPub = <<>> THEN latest_frame = NULL ELSE CacheHolds(lastPub)
           /\ (nread' = 4) => len' = DecodeLen(Take(wire, 4)) /\ wire' = Drop(wire, 4)
    ]_vars

\* The frame <<7>> was decoded and dropped while a responder held the
\* mutex: the cache still holds DE AD BE EF, the connection is open and the
\* producer's next frame is arriving on it.
PublisherLockTimeoutWitness ==
  /\ fpc = "hdr" /\ lastDropped /\ lastDecoded = <<7>>
  /\ CacheHolds(DeadBeef) /\ lastPub = DeadBeef
  /\ relayEnd = "accepted" /\ peerOpen /\ Len(wire) >= 4
  /\ \E v \in Viewers : frameMutex = HeldByViewer(v)

\* The cache slot is consistent: a buffer iff a length in [1, 5 MiB], the
\* length that of the buffer.
SlotConsistent ==
  /\ (latest_frame # NULL) <=> (latest_len >= 1 /\ latest_len <= U32Val(MaxFrameLen))
  /\ latest_frame # NULL =>
       heap[latest_frame].alive /\ heap[latest_frame].size = latest_len

BodyOf(v) == IF Len(out[v]) >= 2 THEN out[v][2].bytes ELSE <<>>

\* C22: per-viewer monotonicity.  The bodies sent to one viewer, in the
\* order sent, can be matched to publications in publication order: each
\* body is the frame of a publication that is not earlier than the one the
\* viewer's previous body was matched to (sentAt is the earliest such
\* match), so a viewer that was sent a frame is never sent afterwards one
\* that was only published before it.  Publications may be skipped and a
\* frame may be sent again.
ViewerMonotone ==
  [][ \A v \in Viewers :
        /\ sentAt[v] <= Len(pubLog)
        /\ BodyOf(v) # <<>> => sentAt[v] >= 1 /\ pubLog[sentAt[v]] = BodyOf(v)
        /\ sentAt'[v] >= sentAt[v]
        /\ sentAt'[v] # sentAt[v] =>
             /\ vpc[v] = "send_body" /\ BodyOf(v)' = CopyOf(v)
             /\ sentAt'[v] <= Len(pubLog)
    ]_vars

\* Viewer 1 was sent DE AD BE EF, the first frame published, and then
\* <<7>>, the second; viewer 2 is still at the first.
ViewerMonotoneWitness ==
  /\ pubLog = <<DeadBeef, <<7>>>>
  /\ vpc[1] = "pace" /\ prevBody[1] = DeadBeef /\ BodyOf(1) = <<7>> /\ sentAt[1] = 2
  /\ vpc[2] = "send_boundary" /\ BodyOf(2) = DeadBeef /\ sentAt[2] = 1

\* What one part is: its header with the copy's length, the copy, the
\* boundary.
OnePart(chunks, bytes) ==
  chunks = <<PartHeader(Len(bytes)), PartBody(bytes), PartBoundary>>
\* Every cycle with a copy goes on to send, whatever the copy holds, and the
\* part it finishes is one part, of that copy.
SendsEveryCopy ==
  \A v \in Viewers :
    /\ (vpc[v] = "give" /\ tmpbuf[v] # NULL /\ vpc'[v] # "give")
         => /\ vpc'[v] = "send_header" /\ tmpbuf'[v] = tmpbuf[v]
            /\ heap'[tmpbuf[v]] = heap[tmpbuf[v]]
    /\ (vpc'[v] = "send_header" /\ vpc[v] # "send_header")
         => vpc[v] = "give" /\ tmpbuf[v] # NULL
    /\ (out'[v] # out[v] /\ out'[v] # <<>>) => vpc[v] \in SendStates
    /\ (vpc[v] = "send_boundary" /\ vpc'[v] = "pace") => OnePart(out'[v], CopyOf(v))
    /\ vpc[v] = "pace" => OnePart(out[v], BodyOf(v))

\* C23 as stated: a cycle that took a copy always emits its part.
NoChangeDetectionAlways ==
  [][ /\ SendsEveryCopy
      /\ \A v \in Viewers :
           (vpc[v] \in SendStates /\ vpc'[v] # vpc[v])
             => vpc'[v] \in SendStates \cup {"pace"}
    ]_vars

\* C23, amended: a cycle in which the lock was acquired, the cache was not
\* empty and the copy was allocated goes on to send, whether or not the
\* copy equals the body of the viewer's previous part, and emits exactly one
\* part, of that copy, unless one of its three sends fails; a failed send
\* ends the responder with the part unfinished.
NoChangeDetection ==
  [][ /\ SendsEveryCopy
      /\ \A v \in Viewers :
           (vpc[v] \in SendStates /\ vpc'[v] # vpc[v])
             => \/ vpc'[v] \in SendStates \cup {"pace"}
                \/ vpc'[v] = "done" /\ out'[v] = <<>> /\ tmpbuf'[v] = NULL
    ]_vars

\* One frame was published, once, and viewer 1 has been sent it in two
\* parts running.
NoChangeDetectionWitness ==
  /\ pubLog = <<DeadBeef>>
  /\ vpc[1] = "pace" /\ prevBody[1] = DeadBeef /\ OnePart(out[1], DeadBeef)

\* C24: an idle feed is dropped.  A header read that finds fewer than 4
\* bytes, none included, ends the read loop whether or not the peer is still
\* connected: what it read is discarded, and the cache, the published
\* frames and the mutex are untouched.  The loop's next step closes the
\* connection.  At the top of the read loop bytes are consumed only as a
\* whole header or on the way out.  Once closed, the connection carries
\* nothing more: the relay reads again only from a new connection, which
\* starts empty in the listen backlog.
IdleFeedDropped ==
  [][ /\ (exitWhy' = "short_header" /\ exitWhy # "short_header") =>
           /\ fpc = "hdr" /\ Len(wire) < 4
           /\ nread' = Len(wire) /\ wire' = <<>>
           /\ fpc' = "stop"
           /\ UNCHANGED <<cacheVars, heap, frameMutex, lastPub, published,
                          relayEnd, peerOpen>>
      /\ (fpc = "hdr" /\ Len(wire') < Len(wire)) => nread' = 4 \/ fpc' = "stop"
      /\ (exitWhy = "short_header" /\ feedVars' # feedVars) =>
           /\ fpc' = "idle" /\ relayEnd' = "none" /\ wire' = <<>>
           /\ UNCHANGED <<cacheVars, heap, frameMutex, lastPub, published>>
      /\ exitWhy = "short_header" => fpc = "stop" /\ relayEnd = "accepted"
      /\ relayEnd = "none" => wire = <<>> /\ fpc = "idle" /\ wire' = <<>>
      /\ (relayEnd = "none" /\ relayEnd' # "none") =>
           relayEnd' = "pending" /\ peerOpen' /\ fpc' = "idle"
    ]_vars

\* A peer wrote half a header and stalled, still connected: the relay has
\* left its read loop, with the frame published earlier still cached.
IdleFeedDroppedWitness ==
  /\ fpc = "stop" /\ exitWhy = "short_header" /\ nread = 2
  /\ peerOpen /\ relayEnd = "accepted"
  /\ lastPub \in CamFrames /\ CacheHolds(lastPub)

\* The relay is serving the no-camera node's connection.
ServingNoCam == relayEnd = "accepted" /\ peerKind = "nocam"
\* 0xDEADBEEF
DeadBeefLen == [hi |-> 57005, lo |-> 48879]

\* C25 as stated: every connection of the no-camera node ends by its first
\* 4 bytes being read and rejected as the length 0xDEADBEEF, and the node
\* never changes the cache.
UnframedRejectedAlways ==
  [][ ServingNoCam =>
        /\ UNCHANGED <<cacheVars, lastPub, published>>
        /\ fpc \in {"hdr", "stop"}
        /\ (fpc = "hdr" /\ fpc' = "stop") =>
             exitWhy' = "bad_length" /\ nread' = 4 /\ len' = DeadBeefLen
    ]_vars

\* C25, amended: the 4 bytes DE AD BE EF read as a header are the length
\* 0xDEADBEEF, above 5 MiB, and end the connection; a connection of the
\* no-camera node ends either that way, after exactly its first 4 bytes, or
\* earlier, at a header read that found none of them yet.  While it is
\* served the feed loop allocates nothing, never gets past the header and
\* leaves the cache and the published frames as they are.
UnframedRejected ==
  [][ /\ DecodeLen(DeadBeef) = DeadBeefLen /\ BadLength(DecodeLen(DeadBeef))
      /\ ServingNoCam =>
           /\ UNCHANGED <<cacheVars, lastPub, published>>
           /\ fpc \in {"hdr", "stop"} /\ buf = NULL
           /\ wire \in {<<>>, DeadBeef}
           /\ (fpc = "hdr" /\ fpc' = "stop") =>
                \/ /\ exitWhy' = "bad_length" /\ wire = DeadBeef
                   /\ nread' = 4 /\ len' = DeadBeefLen
                \/ exitWhy' = "short_header" /\ wire = <<>> /\ nread' = 0
           /\ (fpc = "stop" /\ fpc' # "stop") => fpc' = "idle" /\ relayEnd' # "accepted"
    ]_vars

\* The node's connection waited behind the camera's, was accepted, and its
\* DE AD BE EF was read as a bad length: the camera's frame is still cached.
UnframedRejectedWitness ==
  /\ ServingNoCam /\ fpc = "stop" /\ exitWhy = "bad_length"
  /\ nread = 4 /\ len = DeadBeefLen
  /\ CacheHolds(<<7>>) /\ lastPub = <<7>>
====
